---- MODULE Spec2Model ----
(***************************************************************************)
(* A model of libWlz/WlzNMSuppress.c: the Canny-like non-maximal           *)
(* suppression filter of Woolz.                                            *)
(*                                                                         *)
(*   WlzNMSuppress2DBufI / WlzNMSuppress2DBufD  the two run scanners,      *)
(*                      modelled as operators that replay the while loop   *)
(*   WlzNMSuppress2D    the row/run synchroniser, modelled as actions      *)
(*   WlzNMSuppress      the entry point, modelled as actions               *)
(*                                                                         *)
(* Grey values are integers.  On the double path the values are the        *)
(* integer-representable doubles, for which the arithmetic of the scanner  *)
(* is exact; the DBL_EPSILON comparisons are modelled by what they decide  *)
(* on such values.                                                         *)
(***************************************************************************)
EXTENDS Integers, Sequences, FiniteSets, TLC

(***************************************************************************)
(* Woolz error codes and object types used by the file.                    *)
(***************************************************************************)
WLZ_ERR_NONE == "WLZ_ERR_NONE"
WLZ_ERR_EOO == "WLZ_ERR_EOO"
WLZ_ERR_OBJECT_NULL == "WLZ_ERR_OBJECT_NULL"
WLZ_ERR_OBJECT_TYPE == "WLZ_ERR_OBJECT_TYPE"
WLZ_ERR_DOMAIN_NULL == "WLZ_ERR_DOMAIN_NULL"
WLZ_ERR_VALUES_NULL == "WLZ_ERR_VALUES_NULL"
WLZ_ERR_MEM_ALLOC == "WLZ_ERR_MEM_ALLOC"

WLZ_2D_DOMAINOBJ == "WLZ_2D_DOMAINOBJ"
WLZ_3D_DOMAINOBJ == "WLZ_3D_DOMAINOBJ"
WLZ_EMPTY_OBJ == "WLZ_EMPTY_OBJ"

WLZ_GREY_INT == "WLZ_GREY_INT"
WLZ_GREY_UBYTE == "WLZ_GREY_UBYTE"
WLZ_GREY_FLOAT == "WLZ_GREY_FLOAT"
WLZ_GREY_DOUBLE == "WLZ_GREY_DOUBLE"

(***************************************************************************)
(* C arithmetic.                                                           *)
(***************************************************************************)
Abs(x) == IF x < 0 THEN -x ELSE x

\* C integer division truncates towards zero (b # 0).
CDiv(a, b) ==
  IF (a >= 0) = (b > 0) THEN Abs(a) \div Abs(b) ELSE -(Abs(a) \div Abs(b))

\* The C remainder has the sign of the dividend.
CMod(a, b) == a - (b * CDiv(a, b))

\* A C comparison used as an integer.
BoolInt(b) == IF b THEN 1 ELSE 0

\* (num / den) > DBL_EPSILON for integer-representable doubles num and den
\* (den # 0, |den| < 2^52): the quotient of two such values exceeds
\* DBL_EPSILON exactly when it is positive.
DblQuotGtEps(num, den) == (den > 0 /\ num > 0) \/ (den < 0 /\ num < 0)

(***************************************************************************)
(* The per pixel decision of the scanners.                                 *)
(***************************************************************************)
dTableMutSwapped == <<3, 2, 1, 0, 4, 5, 7, 6>>

\* const UBYTE dTable[8] = {3, 2, 0, 1, 4, 5, 7, 6};
dTable == <<3, 2, 0, 1, 4, 5, 7, 6>>

\* ((gY >= 0) << 2) | ((gX >= 0) << 1) | ((gY * gY) >= (gX * gX)), for gY
\* and gX whose squares are representable in the scanner's number type.
DirIdx(gY, gX) ==
  4 * BoolInt(gY >= 0) + 2 * BoolInt(gX >= 0) + BoolInt(gY * gY >= gX * gX)

DirCode(gY, gX) == dTable[DirIdx(gY, gX) + 1]

\* The largest int whose square is an int (32 bits): for a larger gY or gX
\* the product gY * gY or gX * gX of line 139 overflows, which is undefined.
IntSqrtMax == 46340

SquareFitsInt(x) == Abs(x) <= IntSqrtMax

\* The table indices WlzNMSuppress2DBufI can compute at lines 137..139 for
\* int gY and gX: the one of DirIdx when both squares are representable,
\* and otherwise either outcome of the comparison of the overflowed
\* products.
DirIdxI(gY, gX) ==
  IF SquareFitsInt(gY) /\ SquareFitsInt(gX)
  THEN {DirIdx(gY, gX)}
  ELSE { 4 * BoolInt(gY >= 0) + 2 * BoolInt(gX >= 0) + c : c \in {0, 1} }

\* The table index WlzNMSuppress2DBufD computes at lines 307..309 for the
\* doubles gY and gX holding int values: the squares of such doubles are
\* ordered as their magnitudes are.
DirIdxD(gY, gX) ==
  4 * BoolInt(gY >= 0) + 2 * BoolInt(gX >= 0) + BoolInt(Abs(gY) >= Abs(gX))

\* dCode | 0x80, for dCode in 0..7.
RetainedFlag == 128

TagByteMutNoFlag(dCode) == dCode

TagByte(dCode) == dCode + RetainedFlag

NumLftMutLower(dCode, st, gY, gX) == IF dCode < 4 THEN st.C[2] ELSE 0

\* The stencil is a record [P, C, N] of the three ring rows around the
\* pixel, each a tuple of the samples at pointer offsets 0, 1, 2.
\* The numerator of gMLft for each direction code (cases 0..7 of the switch).
NumLft(dCode, st, gY, gX) ==
  LET gM == st.C[2] IN
  CASE dCode = 0 -> LET g0 == st.C[1] g1 == st.N[1]
                    IN ((gM - g0) * gX) - ((g0 - g1) * gY)
    [] dCode = 1 -> LET g0 == st.N[2] g1 == st.N[1]
                    IN ((g0 - g1) * gX) - ((gM - g0) * gY)
    [] dCode = 2 -> LET g0 == st.N[2] g1 == st.N[3]
                    IN ((g1 - g0) * gX) - ((gM - g0) * gY)
    [] dCode = 3 -> LET g0 == st.C[3] g1 == st.N[3]
                    IN ((g0 - gM) * gX) - ((g0 - g1) * gY)
    [] dCode = 4 -> LET g0 == st.C[3] g1 == st.P[3]
                    IN ((g0 - gM) * gX) - ((g1 - g0) * gY)
    [] dCode = 5 -> LET g0 == st.P[2] g1 == st.P[3]
                    IN ((g1 - g0) * gX) - ((g0 - gM) * gY)
    [] dCode = 6 -> LET g0 == st.P[2] g1 == st.P[1]
                    IN ((g0 - g1) * gX) - ((g0 - gM) * gY)
    [] dCode = 7 -> LET g0 == st.C[1] g1 == st.P[1]
                    IN ((gM - g0) * gX) - ((g1 - g0) * gY)

NumRgtMutIgnored(dCode, st, gY, gX) == st.C[2]

\* The numerator of gMRgt for each direction code.
NumRgt(dCode, st, gY, gX) ==
  LET gM == st.C[2] IN
  CASE dCode = 0 -> LET g0 == st.C[3] g1 == st.P[3]
                    IN ((gM - g0) * gX) - ((g0 - g1) * gY)
    [] dCode = 1 -> LET g0 == st.P[2] g1 == st.P[3]
                    IN ((g0 - g1) * gX) - ((gM - g0) * gY)
    [] dCode = 2 -> LET g0 == st.P[2] g1 == st.P[1]
                    IN ((g1 - g0) * gX) - ((gM - g0) * gY)
    [] dCode = 3 -> LET g0 == st.C[1] g1 == st.P[1]
                    IN ((g0 - gM) * gX) - ((g0 - g1) * gY)
    [] dCode = 4 -> LET g0 == st.C[1] g1 == st.N[1]
                    IN ((g0 - gM) * gX) - ((g1 - g0) * gY)
    [] dCode = 5 -> LET g0 == st.N[2] g1 == st.N[1]
                    IN ((g1 - g0) * gX) - ((g0 - gM) * gY)
    [] dCode = 6 -> LET g0 == st.N[2] g1 == st.N[3]
                    IN ((g0 - g1) * gX) - ((g0 - gM) * gY)
    [] dCode = 7 -> LET g0 == st.C[3] g1 == st.N[3]
                    IN ((gM - g0) * gX) - ((g1 - g0) * gY)

\* if(gM && (gM > minGM))
PassesIMutNoThr(gM, minGM) == gM # 0

PassesI(gM, minGM) == (gM # 0) /\ (gM > minGM)

\* if(((gM * gM) > DBL_EPSILON) && (gM > minGM)); for an integer-representable
\* gM the square exceeds DBL_EPSILON exactly when it is at least 1.
PassesDMutReversed(gM, minGM) == (gM * gM >= 1) /\ (gM <= minGM + 1)

PassesD(gM, minGM) == (gM * gM >= 1) /\ (gM > minGM)

MaximalIMutNoNeighbours(st, gY, gX, minGM) == PassesI(st.C[2], minGM)

\* maximal = (gMLft > 0) && (gMRgt > 0), gMLft and gMRgt being int quotients.
MaximalI(st, gY, gX, minGM) ==
  LET gM == st.C[2]
      dCode == DirCode(gY, gX)
  IN  /\ PassesI(gM, minGM)
      /\ CDiv(NumLft(dCode, st, gY, gX), gM) > 0
      /\ CDiv(NumRgt(dCode, st, gY, gX), gM) > 0

\* maximal = (gMLft > DBL_EPSILON) && (gMRgt > DBL_EPSILON)
MaximalD(st, gY, gX, minGM) ==
  LET gM == st.C[2]
      dCode == DirCode(gY, gX)
  IN  /\ PassesD(gM, minGM)
      /\ DblQuotGtEps(NumLft(dCode, st, gY, gX), gM)
      /\ DblQuotGtEps(NumRgt(dCode, st, gY, gX), gM)

(***************************************************************************)
(* WlzNMSuppress2DBufI and WlzNMSuppress2DBufD.                            *)
(*                                                                         *)
(* The argument a is the record of the call's parameters:                  *)
(*   grdMBuf  the ring, [slot -> [column -> sample]]                       *)
(*   grdYBuf, grdXBuf  the derivative caches, [index -> sample]            *)
(*   dstBuf   the direction bytes of the run, [0..dstLen-1 -> byte]        *)
(*   dstLen, dstPos, orgPos, minGM  as in the source                       *)
(*   itvFree  the number of WlzDynItvAdd calls the pool can still serve    *)
(* The loop state s holds the locals; k counts the pointer increments.     *)
(***************************************************************************)
\* *(grdMBuf + ((dstPos.vtY + 3 + d) % 3)), for d = -1, 0, 1
RingSlot(vtY, d) == CMod(vtY + 3 + d, 3)

\* The 3x3 samples reached from grdMBufPrv, grdMBufCur and grdMBufNxt after
\* k increments: offsets 0, 1, 2 from column dstPos.vtX + k.
Stencil(a, k) ==
  LET row(d) == a.grdMBuf[RingSlot(a.dstPos.vtY, d)]
      c == a.dstPos.vtX + k
  IN  [P |-> <<row(-1)[c], row(-1)[c + 1], row(-1)[c + 2]>>,
       C |-> <<row(0)[c], row(0)[c + 1], row(0)[c + 2]>>,
       N |-> <<row(1)[c], row(1)[c + 1], row(1)[c + 2]>>]

\* cnt = dstLen - 2;
ScanCountMutLast(dstLen) == dstLen - 1

ScanCount(dstLen) == dstLen - 2

\* The locals after lines 117..124 (287..294).
BufStart(a) ==
  [cnt |-> ScanCount(a.dstLen),
   itvLft |-> a.dstPos.vtX + 1,
   itvLen |-> 0,
   vtX |-> a.dstPos.vtX + 1,
   k |-> 0,
   dstBuf |-> [[a.dstBuf EXCEPT ![0] = 0] EXCEPT ![a.dstLen - 1] = 0],
   itvs |-> <<>>,
   errNum |-> WLZ_ERR_NONE]

\* The columns of the ring rows a scanner call can read: offsets 0, 1, 2
\* from the three row pointers, which start at column dstPos.vtX (lines
\* 117..119) and are incremented once per pass (lines 230..232).
RingColsRead(a) ==
  { a.dstPos.vtX + k + j : k \in 0..(ScanCount(a.dstLen) - 1), j \in 0..2 }

\* The indexes at which a scanner call accesses dstBuf, grdYBuf and grdXBuf:
\* 0 and dstLen - 1 (lines 122, 123) and, after the increments of lines
\* 127..129, one more per pass.
RunIdxTouched(a) ==
  {0, a.dstLen - 1} \cup { k + 1 : k \in 0..(ScanCount(a.dstLen) - 1) }

DynItvAddMutLong(a, s, ln, kol, len) ==
  [itvs |-> Append(s.itvs, [ln |-> ln, kol |-> kol, len |-> len + 1]),
   errNum |-> WLZ_ERR_NONE]

\* errNum = WlzDynItvAdd(dstIDom, iPool, line, iLft, iLen): the interval is
\* appended unless the pool cannot be extended.
DynItvAdd(a, s, ln, kol, len) ==
  IF Len(s.itvs) < a.itvFree
  THEN [itvs |-> Append(s.itvs, [ln |-> ln, kol |-> kol, len |-> len]),
        errNum |-> WLZ_ERR_NONE]
  ELSE [itvs |-> s.itvs, errNum |-> WLZ_ERR_MEM_ALLOC]

\* One pass of the body of the while loop of WlzNMSuppress2DBufI.
BufIBody(a, s) ==
  LET cnt == s.cnt - 1
      i == s.k + 1
      st == Stencil(a, s.k)
      gX == a.grdXBuf[i]
      gY == a.grdYBuf[i]
      maximal == MaximalI(st, gY, gX, a.minGM)
      itvLen == IF maximal
                THEN (IF s.itvLen # 0 THEN s.itvLen + 1 ELSE 1)
                ELSE s.itvLen
      itvLft == IF maximal /\ s.itvLen = 0 THEN s.vtX ELSE s.itvLft
      dstBuf == [s.dstBuf EXCEPT
                   ![i] = IF maximal THEN TagByte(DirCode(gY, gX)) ELSE 0]
      close == (itvLen > 0) /\ ((cnt = 0) \/ ~maximal)
      added == DynItvAdd(a, s, a.dstPos.vtY + a.orgPos.vtY,
                         itvLft + a.orgPos.vtX, itvLen)
  IN  [cnt |-> cnt,
       itvLft |-> itvLft,
       itvLen |-> IF close THEN 0 ELSE itvLen,
       vtX |-> s.vtX + 1,
       k |-> s.k + 1,
       dstBuf |-> dstBuf,
       itvs |-> IF close THEN added.itvs ELSE s.itvs,
       errNum |-> IF close THEN added.errNum ELSE s.errNum]

\* One pass of the body of the while loop of WlzNMSuppress2DBufD: the
\* maximal branch writes the direction byte only, so itvLen stays 0 and
\* dstPos.vtX is not advanced.
BufDBody(a, s) ==
  LET cnt == s.cnt - 1
      i == s.k + 1
      st == Stencil(a, s.k)
      gX == a.grdXBuf[i]
      gY == a.grdYBuf[i]
      maximal == MaximalD(st, gY, gX, a.minGM)
      dstBuf == [s.dstBuf EXCEPT
                   ![i] = IF maximal THEN TagByte(DirCode(gY, gX)) ELSE 0]
      close == (s.itvLen > 0) /\ ((cnt = 0) \/ ~maximal)
      added == DynItvAdd(a, s, a.dstPos.vtY + a.orgPos.vtY,
                         s.itvLft + a.orgPos.vtX, s.itvLen)
  IN  [cnt |-> cnt,
       itvLft |-> s.itvLft,
       itvLen |-> IF close THEN 0 ELSE s.itvLen,
       vtX |-> s.vtX,
       k |-> s.k + 1,
       dstBuf |-> dstBuf,
       itvs |-> IF close THEN added.itvs ELSE s.itvs,
       errNum |-> IF close THEN added.errNum ELSE s.errNum]

\* while((errNum == WLZ_ERR_NONE) && (cnt-- > 0)) { ... } return(errNum);
\* (the locals t after one pass are computed once, then the loop goes on).
RECURSIVE BufILoop(_, _)
BufILoop(a, s) ==
  IF (s.errNum = WLZ_ERR_NONE) /\ (s.cnt > 0)
  THEN CHOOSE r \in { BufILoop(a, t) : t \in {BufIBody(a, s)} } : TRUE
  ELSE s

RECURSIVE BufDLoop(_, _)
BufDLoop(a, s) ==
  IF (s.errNum = WLZ_ERR_NONE) /\ (s.cnt > 0)
  THEN CHOOSE r \in { BufDLoop(a, t) : t \in {BufDBody(a, s)} } : TRUE
  ELSE s

\* The result of a scanner call: the direction bytes of the run, the
\* intervals appended to dstIDom, and the returned error code.
WlzNMSuppress2DBufI(a) ==
  CHOOSE r \in { [dstBuf |-> s.dstBuf, itvs |-> s.itvs, errNum |-> s.errNum] :
                   s \in {BufILoop(a, BufStart(a))} } : TRUE

WlzNMSuppress2DBufD(a) ==
  CHOOSE r \in { [dstBuf |-> s.dstBuf, itvs |-> s.itvs, errNum |-> s.errNum] :
                   s \in {BufDLoop(a, BufStart(a))} } : TRUE

(***************************************************************************)
(* Interval domains and the interval scan cursor.  A domain is a finite    *)
(* set of pixels <<line, column>>; its intervals are the maximal runs of   *)
(* columns of each line, in raster order.                                  *)
(***************************************************************************)
SetMin(S) == CHOOSE x \in S : \A y \in S : x <= y
SetMax(S) == CHOOSE x \in S : \A y \in S : x >= y

\* line1, lastln, kol1, lastkl of the interval domain of a non-empty set.
Line1(D) == SetMin({p[1] : p \in D})
LastLn(D) == SetMax({p[1] : p \in D})
Kol1(D) == SetMin({p[2] : p \in D})
LastKl(D) == SetMax({p[2] : p \in D})

RECURSIVE LineItvs(_, _, _, _)
\* The intervals of line ln from column c on, appended to acc.
LineItvs(D, ln, c, acc) ==
  IF c > LastKl(D) THEN acc
  ELSE IF <<ln, c>> \notin D THEN LineItvs(D, ln, c + 1, acc)
  ELSE LET e == CHOOSE e \in c..LastKl(D) :
                  /\ \A k \in c..e : <<ln, k>> \in D
                  /\ <<ln, e + 1>> \notin D
       IN  LineItvs(D, ln, e + 1,
                    Append(acc, [ln |-> ln, lft |-> c, rgt |-> e]))

RECURSIVE DomItvs(_, _, _)
\* The intervals of the lines ln..lastln, appended to acc.
DomItvs(D, ln, acc) ==
  IF ln > LastLn(D) THEN acc
  ELSE DomItvs(D, ln + 1, LineItvs(D, ln, Kol1(D), acc))

Intervals(D) == IF D = {} THEN <<>> ELSE DomItvs(D, Line1(D), <<>>)

\* The workspace after WlzInitGreyScan: before the first line.
InitGreyScan(D) ==
  [idx |-> 0, linpos |-> Line1(D) - 1, lftpos |-> Kol1(D),
   rgtpos |-> Kol1(D) - 1, nwlpos |-> 0, intrmn |-> 0]

\* WlzNextGreyInterval: the next interval in raster order, or WLZ_ERR_EOO.
\* nwlpos is the number of lines stepped since the previous interval,
\* intrmn the number of intervals still to come on the line.
NextGreyInterval(w, itvs) ==
  IF w.idx >= Len(itvs)
  THEN [errNum |-> WLZ_ERR_EOO, w |-> w]
  ELSE LET it == itvs[w.idx + 1]
       IN  [errNum |-> WLZ_ERR_NONE,
            w |-> [idx |-> w.idx + 1,
                   linpos |-> it.ln,
                   lftpos |-> it.lft,
                   rgtpos |-> it.rgt,
                   nwlpos |-> it.ln - w.linpos,
                   intrmn |-> Cardinality({j \in (w.idx + 2)..Len(itvs) :
                                             itvs[j].ln = it.ln})]]

(***************************************************************************)
(* Bounds of the model.                                                    *)
(***************************************************************************)
\* The longest run handed to a scanner on its own.
MaxLen == 5
\* Thresholds of the scanner calls range over 0..MaxThr.
MaxThr == 1
\* The largest number of lines and of columns of an input domain.
MaxRows == 5
MaxCols == 5

ThrVals == 0..MaxThr
\* Magnitude samples of the free stencils; Hi is the largest of them.
MagVals == {0, 1, 2}
Hi == 1 + 1
\* Derivative samples: every octant, its two edges and the zero gradient.
DerVals == (-2)..2
\* A derivative large enough for its product with a difference of
\* magnitudes to survive the integer division by the magnitude.
BigDer == Hi + 1
\* A pool that never runs out within the model.
AmplePool == (MaxLen + 2) * (MaxLen + 2)
\* What the direction raster may hold before the scanner writes to it.
PriorBytes == {0, 255}
\* What a sample of malloc'ed, not yet written memory may read as.
GarbageVals == {0, 999}

\* A sample of the ring that has not been written since AlcInt2Malloc or
\* AlcDouble2Malloc returned it.
Undef == -1000000

VARIABLES
  pc,        \* where the call is: "entry", "setup2D", "outer", "inner",
             \* "exit2D", "return", "done" ("idle" in the scanner harness)
  inp,       \* the arguments of WlzNMSuppress and the injected failure
  errNum,    \* the errNum of WlzNMSuppress / WlzNMSuppress2D
  dstObj,    \* the returned object
  istObj,    \* the intersection object
  tObjs,     \* tObjs[0..3] of WlzNMSuppress, TRUE when non-NULL
  made,      \* the objects and buffers allocated so far
  freed,     \* how often each object or buffer has been freed
  wild,      \* TRUE once a free was called on an uninitialised pointer
  tmpValCore, \* tmpVal.core: "uninit", "NULL" or "set"
  bufType,   \* WLZ_GREY_INT or WLZ_GREY_DOUBLE
  minThrV,   \* the converted threshold
  grdMBuf,   \* the three row ring of magnitudes
  inLnIdx,   \* the ring slot of the line being read
  grdYBuf,   \* the vertical derivative cache
  grdXBuf,   \* the horizontal derivative cache
  tmpIWSp,   \* cursor of the carrier object tmpObj
  grdMIWSp,  \* cursor of grdM
  grdYIWSp,  \* cursor of grdY
  grdXIWSp,  \* cursor of grdX
  dstVal,    \* tmpVal: the direction raster, [pixel -> byte]
  dstItv,    \* the intervals appended to dstDom
  bpc,       \* scanner harness: "idle", "ready", "called"
  bufCall,   \* the parameters of the latest scanner call
  bufI,      \* the result of WlzNMSuppress2DBufI for bufCall
  bufD       \* the result of WlzNMSuppress2DBufD for bufCall

callVars == <<pc, inp, errNum, dstObj, istObj, tObjs, made, freed, wild,
              tmpValCore, bufType, minThrV, grdMBuf, inLnIdx, grdYBuf, grdXBuf,
              tmpIWSp, grdMIWSp, grdYIWSp, grdXIWSp, dstVal, dstItv>>
bufVars == <<bpc, bufCall, bufI, bufD>>
vars == <<callVars, bufVars>>

NoCall == [dstLen |-> 0]
NoResult == [errNum |-> "not called"]

(***************************************************************************)
(* The arguments of WlzNMSuppress.                                         *)
(***************************************************************************)
NullObj ==
  [null |-> TRUE, type |-> "none", dom |-> {}, domNull |-> TRUE,
   valNull |-> TRUE, gType |-> WLZ_GREY_INT]

\* A domain object with the pixel set D and a value table of grey type g.
DomObj(t, D, g) ==
  [null |-> FALSE, type |-> t, dom |-> D, domNull |-> FALSE,
   valNull |-> FALSE, gType |-> g]

NullResult == [type |-> "NULL"]
EmptyResult == [type |-> WLZ_EMPTY_OBJ]

Rect(l0, k0, r, w) ==
  { <<l, k>> : l \in l0..(l0 + r - 1), k \in k0..(k0 + w - 1) }

\* The magnitudes of the scenario images.
ScenarioMag == [lo |-> 10, pk |-> 50]

\* The three value rasters, given by inp.img = [kind, at, gy, gx]:
\*   "flat"   the magnitude lo everywhere
\*   "peak"   pk at the pixel img.at, lo elsewhere
\*   "ridge"  pk on the line of img.at, lo elsewhere
\*   "rows"   a different magnitude at every pixel, falling steeply from
\*            line to line
\*   "comb"   pk at the odd columns of the line of img.at, lo elsewhere
\* and the derivative pair (gy, gx) at every pixel.
ValM(in, ln, kl) ==
  CASE in.img.kind = "flat" -> ScenarioMag.lo
    [] in.img.kind = "peak" ->
         IF <<ln, kl>> = in.img.at THEN ScenarioMag.pk ELSE ScenarioMag.lo
    [] in.img.kind = "ridge" ->
         IF ln = in.img.at[1] THEN ScenarioMag.pk ELSE ScenarioMag.lo
    [] in.img.kind = "rows" -> (3 ^ (MaxRows - ln)) + kl
    [] in.img.kind = "comb" ->
         IF (ln = in.img.at[1]) /\ (kl % 2 = 1)
         THEN ScenarioMag.pk ELSE ScenarioMag.lo

ValY(in, ln, kl) == in.img.gy
ValX(in, ln, kl) == in.img.gx

(***************************************************************************)
(* Library calls of the entry point.                                       *)
(***************************************************************************)
RECURSIVE DomIntersection(_, _)
DomIntersection(objs, n) ==
  IF n = 1 THEN objs[1].dom ELSE objs[n].dom \cap DomIntersection(objs, n - 1)

\* WlzIntersectN(n, tObjs, 0, &errNum): a NULL object, a NULL domain or
\* mixed types are errors; an empty operand or an empty intersection gives
\* the empty object; otherwise an object of the operands' type.
IntersectN(objs) ==
  LET n == Len(objs)
      Err(e) == [errNum |-> e, type |-> "NULL", dom |-> {}]
      Empty == [errNum |-> WLZ_ERR_NONE, type |-> WLZ_EMPTY_OBJ, dom |-> {}]
  IN  IF \E i \in 1..n : objs[i].null THEN Err(WLZ_ERR_OBJECT_NULL)
      ELSE IF objs[1].type = WLZ_EMPTY_OBJ THEN Empty
      ELSE IF objs[1].type \notin {WLZ_2D_DOMAINOBJ, WLZ_3D_DOMAINOBJ}
        THEN Err(WLZ_ERR_OBJECT_TYPE)
      ELSE IF \E i \in 1..n : objs[i].type = WLZ_EMPTY_OBJ THEN Empty
      ELSE IF \E i \in 1..n : objs[i].type # objs[1].type
        THEN Err(WLZ_ERR_OBJECT_TYPE)
      ELSE IF \E i \in 1..n : objs[i].domNull THEN Err(WLZ_ERR_DOMAIN_NULL)
      ELSE IF DomIntersection(objs, n) = {} THEN Empty
      ELSE [errNum |-> WLZ_ERR_NONE,
            type |-> objs[1].type,
            dom |-> DomIntersection(objs, n)]

\* The position of the injected failure in a list of steps (one past the
\* end when none of them fails).
FailIdx(steps) ==
  IF \E k \in 1..Len(steps) : steps[k] = inp.fail
  THEN CHOOSE k \in 1..Len(steps) : steps[k] = inp.fail
  ELSE Len(steps) + 1

Bump(f, names) == [x \in DOMAIN f |-> IF x \in names THEN f[x] + 1 ELSE f[x]]

ResNames ==
  {"istObj", "tObj0", "tObj1", "tObj2", "tObj3", "tmpVal", "tmpObj",
   "grdMBuf", "grdYBuf", "grdXBuf", "dstDom", "dstObj"}

CarrierSteps == <<"MakeMain0", "MakeMain1", "MakeMain2", "MakeMain3">>
CarrierNames == <<"tObj0", "tObj1", "tObj2", "tObj3">>

(***************************************************************************)
(* WlzNMSuppress: from the call to the call of WlzNMSuppress2D, or to the  *)
(* return for every other case of the two switches.                        *)
(***************************************************************************)
NoObjs == <<FALSE, FALSE, FALSE, FALSE>>
NoIst == [errNum |-> WLZ_ERR_NONE, type |-> "NULL", dom |-> {}]

\* What WlzNMSuppress has done when it hands over to WlzNMSuppress2D or
\* returns: where it is, errNum, dstObj, istObj, tObjs, and the objects made
\* and freed.
Outcome(p, e, d, i, t, m, f) ==
  [pc |-> p, errNum |-> e, dstObj |-> d, istObj |-> i, tObjs |-> t,
   made |-> m, freed |-> f]

MakeEmptyMutError(ist, m) ==
  Outcome("done", WLZ_ERR_OBJECT_TYPE, NullResult, ist, NoObjs, m, freed)

\* case WLZ_EMPTY_OBJ: dstObj = WlzMakeEmpty(&errNum);
MakeEmpty(ist, m) ==
  Outcome("done", WLZ_ERR_NONE, EmptyResult, ist, NoObjs,
          m \cup {"dstObj"}, freed)

WlzNMSuppress3DMutEmpty == [dstObj |-> EmptyResult, errNum |-> WLZ_ERR_NONE]

\* WlzNMSuppress3D: errNum = WLZ_ERR_OBJECT_TYPE; return(dstObj) with dstObj
\* NULL.
WlzNMSuppress3D == [dstObj |-> NullResult, errNum |-> WLZ_ERR_OBJECT_TYPE]

\* tObjs and the objects made after the first k carriers have been made.
Carriers(k) == [i \in 1..4 |-> i <= k]
Made(k) == {"istObj"} \cup {CarrierNames[i] : i \in 1..k}

\* The switch on istObj->type of the 3D case, lines 885..929, for the
\* intersection ist when the first k of the four WlzMakeMain calls succeed.
Inner3D(ist, k) ==
  CASE ist.type = WLZ_2D_DOMAINOBJ ->
         \* WlzNMSuppress3D is called when the four carriers were made; then
         \* the loop frees tObjs[0] four times.
         Outcome("done",
                 IF k = 4 THEN WlzNMSuppress3D.errNum ELSE WLZ_ERR_MEM_ALLOC,
                 IF k = 4 THEN WlzNMSuppress3D.dstObj ELSE NullResult,
                 ist, Carriers(k), Made(k),
                 IF k >= 1 THEN [freed EXCEPT !["tObj0"] = @ + 4] ELSE freed)
    [] ist.type = WLZ_EMPTY_OBJ -> MakeEmpty(ist, {"istObj"})
    [] OTHER ->
         Outcome("done", WLZ_ERR_OBJECT_TYPE, NullResult, ist, NoObjs,
                 {"istObj"}, freed)

EntryOutcome ==
  LET Fail(e) == Outcome("done", e, NullResult, NoIst, NoObjs, {}, freed)
  IN  IF inp.grdM.null THEN Fail(WLZ_ERR_OBJECT_NULL)
      ELSE CASE inp.grdM.type = WLZ_2D_DOMAINOBJ ->
             LET ist == IntersectN(<<inp.grdM, inp.grdY, inp.grdX>>)
                 k == FailIdx(SubSeq(CarrierSteps, 1, 3)) - 1
             IN  IF ist.errNum # WLZ_ERR_NONE THEN Fail(ist.errNum)
                 ELSE CASE ist.type = WLZ_2D_DOMAINOBJ ->
                        IF k = 3
                        THEN Outcome("setup2D", WLZ_ERR_NONE, NullResult,
                                     ist, Carriers(k), Made(k), freed)
                        ELSE Outcome("return", WLZ_ERR_MEM_ALLOC, NullResult,
                                     ist, Carriers(k), Made(k), freed)
                   [] ist.type = WLZ_EMPTY_OBJ -> MakeEmpty(ist, {"istObj"})
                   [] OTHER ->
                        Outcome("done", WLZ_ERR_OBJECT_TYPE, NullResult, ist,
                                NoObjs, {"istObj"}, freed)
        [] inp.grdM.type = WLZ_3D_DOMAINOBJ ->
             LET ist == IntersectN(<<inp.grdM, inp.grdZ, inp.grdY, inp.grdX>>)
                 k == FailIdx(CarrierSteps) - 1
             IN  IF ist.errNum # WLZ_ERR_NONE THEN Fail(ist.errNum)
                 ELSE Inner3D(ist, k)
        [] inp.grdM.type = WLZ_EMPTY_OBJ -> MakeEmpty(NoIst, {})
        [] OTHER -> Fail(WLZ_ERR_OBJECT_TYPE)

scanVars == <<tmpValCore, bufType, minThrV, grdMBuf, inLnIdx, grdYBuf,
              grdXBuf, tmpIWSp, grdMIWSp, grdYIWSp, grdXIWSp, dstVal,
              dstItv>>

Entry ==
  /\ pc = "entry"
  /\ LET o == EntryOutcome
     IN  /\ pc' = o.pc
         /\ errNum' = o.errNum
         /\ dstObj' = o.dstObj
         /\ istObj' = o.istObj
         /\ tObjs' = o.tObjs
         /\ made' = o.made
         /\ freed' = o.freed
  /\ UNCHANGED <<inp, wild, scanVars, bufVars>>

\* WlzNMSuppress after WlzNMSuppress2D has returned: the loop
\*   for(idN = 0; idN < 3; ++idN) if(tObjs[0]) WlzFreeObj(tObjs[0]);
\* and the return.
Return ==
  /\ pc = "return"
  /\ freed' = IF tObjs[1] THEN [freed EXCEPT !["tObj0"] = @ + 3] ELSE freed
  /\ pc' = "done"
  /\ UNCHANGED <<inp, errNum, dstObj, istObj, tObjs, made, wild, scanVars,
                 bufVars>>

(***************************************************************************)
(* WlzNMSuppress2D.                                                        *)
(***************************************************************************)
IsFloating(g) == g \in {WLZ_GREY_FLOAT, WLZ_GREY_DOUBLE}

\* WlzValueConvertPixel(&minThrV, minThrV, t) for an integer threshold.
ConvertPixel(pix, t) == [type |-> t, v |-> pix.v]

\* The calls of the set up that can fail, in program order, and what each
\* allocates.
SetupSteps ==
  <<"NewValueTb", "MakeMainTmp", "AlcM", "AlcY", "AlcX",
    "MakeIntervalDomain", "InitScanTmp", "InitScanM", "InitScanY",
    "InitScanX">>
SetupMakes ==
  <<{"tmpVal"}, {"tmpObj"}, {"grdMBuf"}, {"grdYBuf"}, {"grdXBuf"},
    {"dstDom"}, {}, {}, {}, {}>>

\* bufSz.vtX = grdDom.i->lastkl - grdDom.i->kol1 + 1
BufWidth(D) == LastKl(D) - Kol1(D) + 1

\* Lines 456..609: validation, buffer type, threshold, tmpVal and tmpObj,
\* the buffers, the destination domain and the four cursors.
Setup2D ==
  /\ pc = "setup2D"
  /\ LET D == istObj.dom
         k == FailIdx(SetupSteps)
         ok == k > Len(SetupSteps)
         floating == \/ IsFloating(inp.grdM.gType)
                     \/ IsFloating(inp.grdY.gType)
                     \/ IsFloating(inp.grdX.gType)
         bt == IF floating THEN WLZ_GREY_DOUBLE ELSE WLZ_GREY_INT
     IN  \* The three objects passed are the carriers made by WlzNMSuppress:
         \* of istObj's type, with istObj's domain and the values of the
         \* parameters.
         IF istObj.type # WLZ_2D_DOMAINOBJ
         THEN /\ errNum' = WLZ_ERR_OBJECT_NULL
              /\ pc' = "exit2D"
              /\ UNCHANGED <<made, scanVars>>
         ELSE IF inp.grdM.valNull \/ inp.grdY.valNull \/ inp.grdX.valNull
         THEN /\ errNum' = WLZ_ERR_VALUES_NULL
              /\ pc' = "exit2D"
              /\ UNCHANGED <<made, scanVars>>
         ELSE /\ bufType' = bt
              /\ minThrV' = ConvertPixel(inp.minThr, bt)
              /\ made' = made \cup UNION {SetupMakes[j] : j \in 1..(k - 1)}
              /\ tmpValCore' = IF k = 1 THEN "NULL" ELSE "set"
              /\ dstVal' = IF k > 1 THEN [p \in D |-> inp.prior] ELSE dstVal
              /\ grdMBuf' = IF k > 3
                            THEN [sl \in 0..2 |->
                                   [c \in 0..(BufWidth(D) - 1) |-> Undef]]
                            ELSE grdMBuf
              /\ grdYBuf' = IF k > 4
                            THEN [c \in 0..(BufWidth(D) - 1) |-> Undef]
                            ELSE grdYBuf
              /\ grdXBuf' = IF k > 5
                            THEN [c \in 0..(BufWidth(D) - 1) |-> Undef]
                            ELSE grdXBuf
              /\ tmpIWSp' = IF k > 7 THEN InitGreyScan(D) ELSE tmpIWSp
              /\ grdMIWSp' = IF k > 8 THEN InitGreyScan(D) ELSE grdMIWSp
              /\ grdYIWSp' = IF k > 9 THEN InitGreyScan(D) ELSE grdYIWSp
              /\ grdXIWSp' = IF k > 10 THEN InitGreyScan(D) ELSE grdXIWSp
              /\ errNum' = IF ok THEN WLZ_ERR_NONE ELSE WLZ_ERR_MEM_ALLOC
              /\ pc' = IF ok THEN "outer" ELSE "exit2D"
              /\ UNCHANGED <<inLnIdx, dstItv>>
  /\ UNCHANGED <<inp, dstObj, istObj, tObjs, freed, wild, bufVars>>

\* The ring slots cleared for a new line: idN = (nwlpos >= 3)? 3: nwlpos;
\* while(--idN >= 0) inLnIdx = (3 + linpos - orgPos.vtY - idN) % 3.
ClearedSlots(linpos, orgY, nwlpos) ==
  LET idN == IF nwlpos >= 3 THEN 3 ELSE nwlpos
  IN  { CMod(3 + (linpos - orgY - j), 3) : j \in 0..(idN - 1) }

ResetEOOMutKeep(e) == e

\* if(errNum == WLZ_ERR_EOO) errNum = WLZ_ERR_NONE, lines 702..705: the end
\* of the object is not an error of the call.
ResetEOO(e) == IF e = WLZ_ERR_EOO THEN WLZ_ERR_NONE ELSE e

CarrierBehindMutLevel(t, m) == t.linpos <= m.linpos

\* tmpIWSp.linpos < grdMIWSp.linpos, line 651: the carrier cursor is on an
\* earlier line than the magnitude cursor.
CarrierBehind(t, m) == t.linpos < m.linpos

RowCompleteMutAlways(w) == TRUE

\* if(grdMIWSp.intrmn == 0), line 648: the interval just read is the last
\* of its line.
RowComplete(w) == w.intrmn = 0

\* One pass of the outer loop, lines 610..648: the next interval of grdM is
\* read, the ring is cleared for a new line and the interval's magnitudes
\* are copied into the slot inLnIdx.  End of object ends the scan with
\* errNum reset (lines 702..705).
NextMInterval ==
  /\ pc = "outer"
  /\ \E nx \in {NextGreyInterval(grdMIWSp, Intervals(istObj.dom))} :
     LET D == istObj.dom
         w == nx.w
         orgX == Kol1(D)
         orgY == Line1(D)
         inLen == w.rgtpos - w.lftpos + 1
         vtX == w.lftpos - orgX
         cleared == ClearedSlots(w.linpos, orgY, w.nwlpos)
         idx == IF w.nwlpos > 0 THEN CMod(3 + (w.linpos - orgY), 3)
                ELSE inLnIdx
         ring == [sl \in 0..2 |->
                   IF sl \in cleared
                   THEN [c \in 0..(BufWidth(D) - 1) |-> 0]
                   ELSE grdMBuf[sl]]
     IN  IF nx.errNum # WLZ_ERR_NONE
         THEN /\ errNum' = ResetEOO(nx.errNum)
              /\ pc' = "exit2D"
              /\ UNCHANGED <<grdMIWSp, grdMBuf, inLnIdx>>
         ELSE /\ grdMIWSp' = w
              /\ inLnIdx' = idx
              /\ grdMBuf' =
                   [ring EXCEPT ![idx] =
                     [c \in 0..(BufWidth(D) - 1) |->
                       IF (c >= vtX) /\ (c < vtX + inLen)
                       THEN ValM(inp, w.linpos, orgX + c) ELSE @[c]]]
              /\ errNum' = WLZ_ERR_NONE
              /\ pc' = IF RowComplete(w) /\ CarrierBehind(tmpIWSp, w)
                       THEN "inner" ELSE "outer"
  /\ UNCHANGED <<inp, dstObj, istObj, tObjs, made, freed, wild, tmpValCore,
                 bufType, minThrV, grdYBuf, grdXBuf, tmpIWSp, grdYIWSp,
                 grdXIWSp, dstVal, dstItv, bufVars>>

\* Reading a buffer of which some samples were never written: such a sample
\* at column c reads as g[c].
Resolved(row, g) == [c \in DOMAIN row |-> IF row[c] = Undef THEN g[c] ELSE row[c]]

OutPosXMutAbsolute(w, D) == w.lftpos

\* outPos.vtX = tmpIWSp.lftpos - orgPos.vtX, line 657: the first column of
\* the run relative to the bounding box.
OutPosX(w, D) == w.lftpos - Kol1(D)

\* The parameters of the scanner call of lines 656..685 when the
\* uninitialised samples read as g.
ScanCall(g) ==
  LET D == istObj.dom
      outLen == tmpIWSp.rgtpos - tmpIWSp.lftpos + 1
      yBuf == [i \in 0..(BufWidth(D) - 1) |->
                IF i < outLen
                THEN ValY(inp, grdYIWSp.linpos, grdYIWSp.lftpos + i)
                ELSE grdYBuf[i]]
      xBuf == [i \in 0..(BufWidth(D) - 1) |->
                IF i < outLen
                THEN ValX(inp, grdXIWSp.linpos, grdXIWSp.lftpos + i)
                ELSE grdXBuf[i]]
  IN  [grdMBuf |-> [sl \in 0..2 |-> Resolved(grdMBuf[sl], g)],
       grdYBuf |-> Resolved(yBuf, g),
       grdXBuf |-> Resolved(xBuf, g),
       yBuf |-> yBuf,
       xBuf |-> xBuf,
       dstBuf |-> [i \in 0..(outLen - 1) |->
                    dstVal[<<tmpIWSp.linpos, tmpIWSp.lftpos + i>>]],
       dstLen |-> outLen,
       dstPos |-> [vtX |-> OutPosX(tmpIWSp, D),
                   vtY |-> tmpIWSp.linpos - Line1(D)],
       orgPos |-> [vtX |-> Kol1(D), vtY |-> Line1(D)],
       minGM |-> minThrV.v,
       itvFree |-> inp.itvFree - Len(dstItv)]

\* What the never written samples can read as in the scanner call of the
\* carrier cursor's interval: one value per column, and nothing to choose
\* when the three ring rows of the call have all been written.
GarbageFills ==
  LET W == BufWidth(istObj.dom)
      vtY == tmpIWSp.linpos - Line1(istObj.dom)
      read == { grdMBuf[RingSlot(vtY, d)][c] : d \in {0 - 1, 0, 1},
                                                c \in 0..(W - 1) }
  IN  IF (vtY >= 0) /\ (Undef \in read)
      THEN [0..(W - 1) -> GarbageVals]
      ELSE {[c \in 0..(W - 1) |-> 0]}

ScanResult(a) ==
  IF bufType = WLZ_GREY_INT
  THEN WlzNMSuppress2DBufI(a) ELSE WlzNMSuppress2DBufD(a)

NextDerivIntervalMutStay(w, itvs) == [errNum |-> WLZ_ERR_NONE, w |-> w]

\* WlzNextGreyInterval(&grdYIWSp) and WlzNextGreyInterval(&grdXIWSp), lines
\* 691..698: a derivative cursor steps to its next interval.
NextDerivInterval(w, itvs) == NextGreyInterval(w, itvs)

\* One pass of the inner loop, lines 650..699: the derivative caches are
\* loaded and the interval under the carrier cursor is scanned (unless the
\* cursor is still before the first line), then the carrier and the two
\* derivative cursors step to their next interval.
ScanRun ==
  /\ pc = "inner"
  /\ \E g \in GarbageFills :
     \E scan \in {tmpIWSp.linpos - Line1(istObj.dom) >= 0} :
     \E a \in {ScanCall(g)} :
     \E r \in {IF scan THEN ScanResult(a) ELSE NoResult} :
     \E itvs \in {Intervals(istObj.dom)} :
       LET e1 == IF scan THEN r.errNum ELSE WLZ_ERR_NONE
           nt == NextGreyInterval(tmpIWSp, itvs)
           e2 == IF e1 = WLZ_ERR_NONE THEN nt.errNum ELSE e1
           ny == NextDerivInterval(grdYIWSp, itvs)
           e3 == IF e2 = WLZ_ERR_NONE THEN ny.errNum ELSE e2
           nx == NextDerivInterval(grdXIWSp, itvs)
           e4 == IF e3 = WLZ_ERR_NONE THEN nx.errNum ELSE e3
       IN  /\ grdYBuf' = IF scan THEN a.yBuf ELSE grdYBuf
           /\ grdXBuf' = IF scan THEN a.xBuf ELSE grdXBuf
           /\ dstVal' = IF scan
                        THEN [p \in DOMAIN dstVal |->
                               IF (p[1] = tmpIWSp.linpos)
                                  /\ (p[2] >= tmpIWSp.lftpos)
                                  /\ (p[2] <= tmpIWSp.rgtpos)
                               THEN r.dstBuf[p[2] - tmpIWSp.lftpos]
                               ELSE dstVal[p]]
                        ELSE dstVal
           /\ dstItv' = IF scan THEN dstItv \o r.itvs ELSE dstItv
           /\ tmpIWSp' = IF e1 = WLZ_ERR_NONE THEN nt.w ELSE tmpIWSp
           /\ grdYIWSp' = IF e2 = WLZ_ERR_NONE THEN ny.w ELSE grdYIWSp
           /\ grdXIWSp' = IF e3 = WLZ_ERR_NONE THEN nx.w ELSE grdXIWSp
           /\ errNum' = ResetEOO(e4)
           /\ pc' = IF e4 # WLZ_ERR_NONE THEN "exit2D"
                    ELSE IF CarrierBehind(nt.w, grdMIWSp) THEN "inner"
                    ELSE "outer"
  /\ UNCHANGED <<inp, dstObj, istObj, tObjs, made, freed, wild, tmpValCore,
                 bufType, minThrV, grdMBuf, inLnIdx, grdMIWSp, bufVars>>

\* The pixels of a list of appended intervals.
ItvPixels(itvs) ==
  UNION { { <<itvs[i].ln, k>> :
             k \in itvs[i].kol..(itvs[i].kol + itvs[i].len - 1) } :
          i \in 1..Len(itvs) }

\* The three scratch buffers of WlzNMSuppress2D.
ScratchBufs == {"grdMBuf", "grdYBuf", "grdXBuf"}

FreeBuffersMutAll(f, m) == Bump(f, ScratchBufs)

\* Lines 734..745: each buffer whose pointer is not NULL is freed; the
\* pointers start NULL (lines 451..453) and are set by the allocations only.
FreeBuffers(f, m) == Bump(f, ScratchBufs \cap m)

PackagedObjMutAlways(e) ==
  [type |-> WLZ_2D_DOMAINOBJ, dom |-> ItvPixels(dstItv), vals |-> dstVal]

\* Lines 708..715 and 750: dstObj is made from the destination domain and
\* tmpVal only when nothing has failed, and stays NULL otherwise.
PackagedObj(e) ==
  IF e = WLZ_ERR_NONE
  THEN [type |-> WLZ_2D_DOMAINOBJ, dom |-> ItvPixels(dstItv), vals |-> dstVal]
  ELSE NullResult

\* Lines 708..751: the destination domain is standardised and packaged with
\* tmpVal, tmpObj and the buffers are freed, and on an error with tmpObj
\* NULL the destination domain and tmpVal are freed if their pointers are
\* not NULL.  tmpVal.core is read even when it was never assigned.
Exit2D ==
  /\ pc = "exit2D"
  /\ \E garbageNonNull \in BOOLEAN :
       LET e1 == IF errNum # WLZ_ERR_NONE THEN errNum
                 ELSE IF inp.fail \in {"StandardIntervalDomain", "MakeMainDst"}
                 THEN WLZ_ERR_MEM_ALLOC
                 ELSE WLZ_ERR_NONE
           success == e1 = WLZ_ERR_NONE
           hasTmpObj == "tmpObj" \in made
           \* WlzFreeObj(tmpObj) drops the last link of tmpVal unless the
           \* returned object holds it too.
           f1 == IF hasTmpObj
                 THEN Bump(freed, {"tmpObj"} \cup
                                  (IF success THEN {} ELSE {"tmpVal"}))
                 ELSE freed
           f2 == IF (~success) /\ (~hasTmpObj)
                 THEN Bump(f1, ({"dstDom"} \cap made) \cup
                               (IF tmpValCore = "set" THEN {"tmpVal"} ELSE {}))
                 ELSE f1
           f3 == FreeBuffers(f2, made)
       IN  /\ errNum' = e1
           /\ dstObj' = PackagedObj(e1)
           /\ made' = IF success THEN made \cup {"dstObj"} ELSE made
           /\ freed' = f3
           /\ wild' = IF (~success) /\ (~hasTmpObj) /\ (tmpValCore = "uninit")
                      THEN garbageNonNull ELSE wild
           /\ pc' = "return"
  /\ UNCHANGED <<inp, istObj, tObjs, scanVars, bufVars>>

(***************************************************************************)
(* The calls of WlzNMSuppress that are explored.                           *)
(***************************************************************************)
NoCursor ==
  [idx |-> 0, linpos |-> 0, lftpos |-> 0, rgtpos |-> 0 - 1, nwlpos |-> 0,
   intrmn |-> 0]

\* The thresholds of the scenarios.
ScenarioThr == {5, 60}

Pix(v) == [type |-> WLZ_GREY_INT, v |-> v]

Call(m, z, y, x, thr, img, prior, fail, free) ==
  [grdM |-> m, grdZ |-> z, grdY |-> y, grdX |-> x, minThr |-> Pix(thr),
   img |-> img, prior |-> prior, fail |-> fail, itvFree |-> free]

Img(kind, at, gy, gx) == [kind |-> kind, at |-> at, gy |-> gy, gx |-> gx]

\* Three objects over one domain; the magnitude object has grey type g.
SameDomCall(D, g, thr, img, prior, fail, free) ==
  Call(DomObj(WLZ_2D_DOMAINOBJ, D, g), NullObj,
       DomObj(WLZ_2D_DOMAINOBJ, D, WLZ_GREY_INT),
       DomObj(WLZ_2D_DOMAINOBJ, D, WLZ_GREY_INT),
       thr, img, prior, fail, free)

BufTypes == {WLZ_GREY_INT, WLZ_GREY_DOUBLE}

\* Rectangular images: flat, one peak at the centre, a ridge on the centre
\* line, with every constant derivative pair.
\* The frames of the scenario images: first line, first column, lines,
\* columns, and what the direction raster holds before the scan.
Frames ==
  { <<0, 0, 3, 3, 0>>, <<20, 10, 3, 3, 255>>, <<0, 0, MaxRows, MaxCols, 255>> }

ScenarioCalls ==
  { SameDomCall(Rect(f[1], f[2], f[3], f[4]), g, thr,
                Img(kind, <<f[1] + (f[3] \div 2), f[2] + (f[4] \div 2)>>,
                    gy, gx),
                f[5], "none", AmplePool) :
      f \in Frames, g \in BufTypes, thr \in ScenarioThr,
      kind \in {"flat", "peak", "ridge"},
      gy \in DerVals, gx \in DerVals }

\* Domains with missing lines and with a line of two intervals.
LineSets == (SUBSET (0..(MaxRows - 1))) \ {{}}
Shape(Ls, split) ==
  { p \in Ls \X (0..(MaxCols - 1)) : (p[1] # split) \/ (p[2] # 2) }
Shapes == { Shape(Ls, split) : Ls \in LineSets, split \in (0 - 1)..1 }

ShapeCalls ==
  { SameDomCall(D, g, 5, Img("rows", <<0, 0>>, d[1], d[2]), 0, "none",
                AmplePool) :
      D \in Shapes, g \in BufTypes, d \in {<<2, 0>>, <<0, 2>>, <<2, 1>>} }

\* Objects that are NULL, empty, of other types, without domain or values,
\* or whose domains only partly overlap or are disjoint.
OddObjs ==
  { NullObj,
    DomObj(WLZ_2D_DOMAINOBJ, Rect(0, 0, 3, 3), WLZ_GREY_INT),
    DomObj(WLZ_2D_DOMAINOBJ, Rect(1, 1, 3, 4), WLZ_GREY_UBYTE),
    DomObj(WLZ_2D_DOMAINOBJ, Rect(7, 7, 3, 3), WLZ_GREY_FLOAT),
    DomObj(WLZ_3D_DOMAINOBJ, Rect(0, 0, 3, 3), WLZ_GREY_INT),
    DomObj(WLZ_EMPTY_OBJ, {}, WLZ_GREY_INT),
    DomObj("WLZ_TRANS_OBJ", {}, WLZ_GREY_INT),
    [DomObj(WLZ_2D_DOMAINOBJ, {}, WLZ_GREY_INT) EXCEPT !.domNull = TRUE],
    [DomObj(WLZ_2D_DOMAINOBJ, Rect(0, 0, 3, 3), WLZ_GREY_INT)
       EXCEPT !.valNull = TRUE] }

OddCalls ==
  { Call(m, z, y, x, 5, Img("peak", <<1, 1>>, 0, 2), 0, "none", AmplePool) :
      m \in OddObjs, y \in OddObjs, x \in OddObjs,
      z \in {NullObj, DomObj(WLZ_3D_DOMAINOBJ, Rect(0, 0, 3, 3),
                             WLZ_GREY_INT)} }

\* Every allocation failing in turn, and an interval pool that runs out.
FailSteps ==
  {"none", "StandardIntervalDomain", "MakeMainDst"}
    \cup {CarrierSteps[i] : i \in 1..3} \cup {SetupSteps[i] : i \in 1..10}

FailCalls ==
  { SameDomCall(Rect(0, 0, 4, 4), g, 5, Img("ridge", <<1, 1>>, gy, 0),
                0, fail, free) :
      g \in BufTypes, gy \in {0, 2}, fail \in FailSteps,
      free \in {0, 1, AmplePool} }

\* A line on which every other pixel stands out, with a vertical gradient.
CombCalls ==
  { SameDomCall(Rect(0, 0, 3, MaxCols), g, 5, Img("comb", <<1, 1>>, 2, 0),
                prior, "none", AmplePool) :
      g \in BufTypes, prior \in PriorBytes }

\* Narrow domains with every set of lines, one of which may hold two
\* intervals of a single pixel.
MaxLiveCols == 3
LiveShapes ==
  { { p \in Ls \X (0..(MaxLiveCols - 1)) : (p[1] # split) \/ (p[2] # 1) } :
      Ls \in LineSets, split \in (0 - 1)..1 }

\* The calls explored for termination: the narrow domains with both grey
\* types, and the failing calls.
LiveCalls ==
  { SameDomCall(D, g, 5, Img("rows", <<0, 0>>, 2, 0), 0, "none", AmplePool) :
      D \in LiveShapes, g \in BufTypes }
    \cup FailCalls

Calls ==
  ScenarioCalls \cup ShapeCalls \cup OddCalls \cup CombCalls \cup LiveCalls

InitOf(C) ==
  /\ inp \in C
  /\ pc = "entry"
  /\ errNum = WLZ_ERR_NONE
  /\ dstObj = NullResult
  /\ istObj = NoIst
  /\ tObjs = NoObjs
  /\ made = {}
  /\ freed = [x \in ResNames |-> 0]
  /\ wild = FALSE
  /\ tmpValCore = "uninit"
  /\ bufType = WLZ_GREY_INT
  /\ minThrV = inp.minThr
  /\ grdMBuf = <<>>
  /\ inLnIdx = 0
  /\ grdYBuf = <<>>
  /\ grdXBuf = <<>>
  /\ tmpIWSp = NoCursor
  /\ grdMIWSp = NoCursor
  /\ grdYIWSp = NoCursor
  /\ grdXIWSp = NoCursor
  /\ dstVal = <<>>
  /\ dstItv = <<>>
  /\ bpc = "idle"
  /\ bufCall = NoCall
  /\ bufI = NoResult
  /\ bufD = NoResult

Init == InitOf(Calls)

Next ==
  \/ Entry
  \/ Setup2D
  \/ NextMInterval
  \/ ScanRun
  \/ Exit2D
  \/ Return

Spec == Init /\ [][Next]_vars

InitLive == InitOf(LiveCalls)

\* The call is a sequential program: while a statement remains to be
\* executed, one is executed.
SpecLive == InitLive /\ [][Next]_vars /\ WF_vars(Next)

(***************************************************************************)
(* The two scanners called on their own, on one interval and a ring that   *)
(* has been written.                                                       *)
(***************************************************************************)
\* A run of three columns: the scanned pixel of every magnitude, each of its
\* eight neighbours 0 or Hi, every derivative pair and threshold.  The derivative caches hold BigDer
\* at the columns that are not scanned.
StencilCalls ==
  { [grdMBuf |-> [sl \in 0..2 |-> [c \in 0..3 |->
                    IF c = 3 THEN 0
                    ELSE IF sl = 0 THEN p[c + 1]
                    ELSE IF sl = 1 THEN m[c + 1] ELSE n[c + 1]]],
     grdYBuf |-> [i \in 0..3 |-> IF i = 1 THEN gy ELSE BigDer],
     grdXBuf |-> [i \in 0..3 |-> IF i = 1 THEN gx ELSE BigDer],
     dstBuf |-> [i \in 0..2 |-> 255],
     dstLen |-> 3, dstPos |-> [vtX |-> 0, vtY |-> 1],
     orgPos |-> [vtX |-> 0, vtY |-> 0], minGM |-> t, itvFree |-> AmplePool] :
    p \in {0, Hi} \X {0, Hi} \X {0, Hi},
    m \in {0, Hi} \X MagVals \X {0, Hi},
    n \in {0, Hi} \X {0, Hi} \X {0, Hi},
    gy \in DerVals, gx \in DerVals, t \in ThrVals }

\* Runs of every length 1..MaxLen at different positions of the ring, the
\* line of the run holding a pattern of magnitudes 0 and Hi between rows of
\* zeros, with a vertical gradient; the interval pool may run out.
PatternCallsOfLen(len) ==
  { [grdMBuf |-> [sl \in 0..2 |-> [c \in 0..(MaxLen + 1) |->
                    IF (sl = RingSlot(y, 0)) /\ (c >= x) /\ (c < x + len)
                    THEN pat[c - x + 1] ELSE 0]],
     grdYBuf |-> [i \in 0..(MaxLen + 1) |-> BigDer],
     grdXBuf |-> [i \in 0..(MaxLen + 1) |-> 0],
     dstBuf |-> [i \in 0..(len - 1) |-> prior],
     dstLen |-> len, dstPos |-> [vtX |-> x, vtY |-> y],
     orgPos |-> [vtX |-> 3 * x, vtY |-> 7 - y], minGM |-> 0,
     itvFree |-> free] :
    x \in 0..1, y \in 0..2, prior \in PriorBytes,
    free \in {0, 1, AmplePool}, pat \in [1..len -> {0, Hi}] }

PatternCalls == UNION { PatternCallsOfLen(len) : len \in 1..MaxLen }

BufCalls == StencilCalls \cup PatternCalls

BufInit ==
  /\ bpc = "ready"
  /\ bufCall \in BufCalls
  /\ bufI = NoResult
  /\ bufD = NoResult
  /\ pc = "idle"
  /\ inp = NoCall
  /\ errNum = WLZ_ERR_NONE
  /\ dstObj = NullResult
  /\ istObj = NoIst
  /\ tObjs = NoObjs
  /\ made = {}
  /\ freed = [x \in ResNames |-> 0]
  /\ wild = FALSE
  /\ tmpValCore = "uninit"
  /\ bufType = WLZ_GREY_INT
  /\ minThrV = Pix(0)
  /\ grdMBuf = <<>>
  /\ inLnIdx = 0
  /\ grdYBuf = <<>>
  /\ grdXBuf = <<>>
  /\ tmpIWSp = NoCursor
  /\ grdMIWSp = NoCursor
  /\ grdYIWSp = NoCursor
  /\ grdXIWSp = NoCursor
  /\ dstVal = <<>>
  /\ dstItv = <<>>

\* Both scanners are called with the same parameters.
CallScanners ==
  /\ bpc = "ready"
  /\ bufI' = WlzNMSuppress2DBufI(bufCall)
  /\ bufD' = WlzNMSuppress2DBufD(bufCall)
  /\ bpc' = "called"
  /\ UNCHANGED <<bufCall, callVars>>

BufNext == CallScanners

SpecBuf == BufInit /\ [][BufNext]_vars

(***************************************************************************)
(* The direction code of the two scanners for one derivative pair held as  *)
(* int by the one and as double by the other.                              *)
(***************************************************************************)
\* The derivative samples: the small ones, and those around the largest
\* int whose square is representable.
WideDerVals ==
  DerVals \cup { s * (IntSqrtMax + d) : s \in {0 - 1, 1}, d \in 0..2 }

DirInit ==
  /\ bpc = "ready"
  /\ bufCall \in { [gY |-> y, gX |-> x] : y \in WideDerVals, x \in WideDerVals }
  /\ bufI = NoResult
  /\ bufD = NoResult
  /\ pc = "idle"
  /\ inp = NoCall
  /\ errNum = WLZ_ERR_NONE
  /\ dstObj = NullResult
  /\ istObj = NoIst
  /\ tObjs = NoObjs
  /\ made = {}
  /\ freed = [x \in ResNames |-> 0]
  /\ wild = FALSE
  /\ tmpValCore = "uninit"
  /\ bufType = WLZ_GREY_INT
  /\ minThrV = Pix(0)
  /\ grdMBuf = <<>>
  /\ inLnIdx = 0
  /\ grdYBuf = <<>>
  /\ grdXBuf = <<>>
  /\ tmpIWSp = NoCursor
  /\ grdMIWSp = NoCursor
  /\ grdYIWSp = NoCursor
  /\ grdXIWSp = NoCursor
  /\ dstVal = <<>>
  /\ dstItv = <<>>

\* Lines 134..139 and 304..309: both scanners compute dCode for the pair.
ComputeDirCodes ==
  /\ bpc = "ready"
  /\ \E b \in DirIdxI(bufCall.gY, bufCall.gX) :
       bufI' = [dCode |-> dTable[b + 1]]
  /\ bufD' = [dCode |-> dTable[DirIdxD(bufCall.gY, bufCall.gX) + 1]]
  /\ bpc' = "called"
  /\ UNCHANGED <<bufCall, callVars>>

DirNext == ComputeDirCodes

SpecDir == DirInit /\ [][DirNext]_vars

(***************************************************************************)
(* Properties.                                                             *)
(***************************************************************************)
\* The columns of the run of bufCall, 0-based.
RunCols == 0..(bufCall.dstLen - 1)

\* The absolute position of column i of the run of bufCall.
RunPixel(i) ==
  <<bufCall.dstPos.vtY + bufCall.orgPos.vtY,
    bufCall.dstPos.vtX + bufCall.orgPos.vtX + i>>

\* The columns of the run whose direction byte carries the retained flag
\* after a scanner call that has returned without error.
Flagged(res) ==
  IF res.errNum = WLZ_ERR_NONE
  THEN { i \in RunCols : res.dstBuf[i] \in 128..135 }
  ELSE {}

\* The magnitude of column i of the run of bufCall.
RunMag(i) ==
  bufCall.grdMBuf[RingSlot(bufCall.dstPos.vtY, 0)][bufCall.dstPos.vtX + i]

\* bufCall with another threshold.
WithThr(t) == [bufCall EXCEPT !.minGM = t]

\* C1 (as the claim states it): for integer magnitudes, derivatives and
\* threshold, WlzNMSuppress2DBufI and WlzNMSuppress2DBufD called with the
\* same parameters put the same pixels into the output region and give each
\* of them the same direction byte.
NumericPathsAgree ==
  (bpc = "called" /\ bufI.errNum = WLZ_ERR_NONE /\ bufD.errNum = WLZ_ERR_NONE)
    => /\ ItvPixels(bufI.itvs) = ItvPixels(bufD.itvs)
       /\ \A i \in RunCols :
            (RunPixel(i) \in ItvPixels(bufI.itvs) \cup ItvPixels(bufD.itvs))
              => bufI.dstBuf[i] = bufD.dstBuf[i]

\* Scenario B: one pixel of magnitude 50 among neighbours of magnitude 10,
\* horizontal derivative 1, vertical derivative 0, threshold 5.
ScenarioB ==
  /\ inp.img.kind = "peak"
  /\ inp.img.gx = 1
  /\ inp.img.gy = 0
  /\ inp.minThr.v = 5

\* C2 (as the claim states it): in Scenario B the returned region is exactly
\* the peak pixel and its byte is 128 (direction code 0).
ScenarioBRetainsPeak ==
  (pc = "done" /\ ScenarioB)
    => /\ dstObj.type = WLZ_2D_DOMAINOBJ
       /\ dstObj.dom = {inp.img.at}
       /\ dstObj.vals[inp.img.at] = 128

\* Scenario D: a line of magnitude 50 between lines of magnitude 10, the
\* same derivative pair everywhere, a threshold below the ridge, no failure.
ScenarioD ==
  /\ inp.img.kind = "ridge"
  /\ inp.minThr.v = 5
  /\ inp.fail = "none"
  /\ inp.itvFree = AmplePool

\* The pixels of the ridge line but for its first and last column.
RidgeInterior ==
  { p \in inp.grdM.dom : /\ p[1] = inp.img.at[1]
                         /\ p[2] > Kol1(inp.grdM.dom)
                         /\ p[2] < LastKl(inp.grdM.dom) }

\* C3 (as the claim states it): in Scenario D every interior pixel of the
\* ridge line is retained, as one run, all with the same direction byte.
ScenarioDRetainsRidge ==
  (pc = "done" /\ ScenarioD)
    => /\ dstObj.type = WLZ_2D_DOMAINOBJ
       /\ RidgeInterior \subseteq dstObj.dom
       /\ Cardinality({ i \in 1..Len(dstItv) :
                          dstItv[i].ln = inp.img.at[1] }) = 1
       /\ \A p, q \in RidgeInterior : dstObj.vals[p] = dstObj.vals[q]

\* C4: after either scanner has run on an interval, of any length and for
\* any magnitudes, derivatives and threshold, the direction byte of the
\* interval's first and of its last column is 0 and no interval appended to
\* the output region contains either column.
BoundaryRejected ==
  bpc = "called"
    => \A res \in {bufI, bufD} :
         /\ res.dstBuf[0] = 0
         /\ res.dstBuf[bufCall.dstLen - 1] = 0
         /\ RunPixel(0) \notin ItvPixels(res.itvs)
         /\ RunPixel(bufCall.dstLen - 1) \notin ItvPixels(res.itvs)

\* C4 witness: a run whose first and last byte were 255 before the call and
\* whose whole interior has been appended as one interval.
BoundaryRejectedWitness ==
  /\ bpc = "called"
  /\ bufCall.dstLen >= 4
  /\ bufCall.dstBuf[0] = 255
  /\ bufCall.dstBuf[bufCall.dstLen - 1] = 255
  /\ RunMag(0) > 0
  /\ RunMag(bufCall.dstLen - 1) > 0
  /\ ItvPixels(bufI.itvs) = { RunPixel(i) : i \in 1..(bufCall.dstLen - 2) }

\* C5: with the magnitudes and derivatives fixed and thresholds t1 <= t2,
\* whatever either scanner retains with t2 it retains with t1: the pixels
\* appended to the region and the bytes carrying the retained flag.
ThresholdMonotone ==
  (bpc = "called" /\ bufCall.minGM = 0)
    => \A t1, t2 \in ThrVals :
         (t1 < t2)
           => LET iLo == WlzNMSuppress2DBufI(WithThr(t1))
                  iHi == WlzNMSuppress2DBufI(WithThr(t2))
                  dLo == WlzNMSuppress2DBufD(WithThr(t1))
                  dHi == WlzNMSuppress2DBufD(WithThr(t2))
              IN  /\ (iLo.errNum = WLZ_ERR_NONE /\ iHi.errNum = WLZ_ERR_NONE)
                       => /\ ItvPixels(iHi.itvs) \subseteq ItvPixels(iLo.itvs)
                          /\ Flagged(iHi) \subseteq Flagged(iLo)
                  /\ Flagged(dHi) \subseteq Flagged(dLo)

\* C5 witness: a call with threshold 0 that retains a pixel in both
\* scanners which the threshold MaxThr removes from both.
ThresholdMonotoneWitness ==
  /\ bpc = "called"
  /\ bufCall.minGM = 0
  /\ ItvPixels(bufI.itvs) # {}
  /\ Flagged(bufD) # {}
  /\ ItvPixels(WlzNMSuppress2DBufI(WithThr(MaxThr)).itvs) = {}
  /\ Flagged(WlzNMSuppress2DBufD(WithThr(MaxThr))) = {}

\* C6 (as the claim states it): what the scan of an interval writes and
\* appends is the same whatever the never written samples of the ring and
\* of the caches read as.
ScanIsDeterministic ==
  (pc = "inner" /\ tmpIWSp.linpos >= Line1(istObj.dom))
    => Cardinality({ ScanResult(ScanCall(g)) : g \in GarbageFills }) = 1

\* C7: every pixel of the region of the returned object carries 128 + the
\* direction code of its derivative pair, and every byte of the direction
\* raster that has been written is 0 or in 128..135.
OutputEncoding ==
  /\ (pc = "done" /\ dstObj.type = WLZ_2D_DOMAINOBJ)
       => \A p \in dstObj.dom :
            dstObj.vals[p] =
              128 + DirCode(ValY(inp, p[1], p[2]), ValX(inp, p[1], p[2]))
  /\ \A p \in DOMAIN dstVal :
       (dstVal[p] # inp.prior) => (dstVal[p] \in ({0} \cup (128..135)))

\* C7 witness: a returned object with a non-empty region, over a raster
\* that held 255 everywhere and has been written with zeros too.
OutputEncodingWitness ==
  /\ pc = "done"
  /\ dstObj.type = WLZ_2D_DOMAINOBJ
  /\ dstObj.dom # {}
  /\ inp.prior = 255
  /\ \E p \in DOMAIN dstObj.vals : dstObj.vals[p] = 0

ScenarioCEmpty ==
  (pc = "done" /\ inp.img.kind = "peak" /\ inp.img.gx = 1 /\ inp.img.gy = 0
     /\ inp.minThr.v = 60)
    => /\ dstObj.type = WLZ_2D_DOMAINOBJ
       /\ dstObj.dom = {}
       /\ \A p \in DOMAIN dstObj.vals : dstObj.vals[p] \notin 128..135

\* C9: when both derivatives are zero at every pixel the returned region is
\* empty and no byte carries the retained flag, for every image and
\* threshold; Scenario A is the flat image of magnitude 10.
ZeroDerivativesRetainNothing ==
  (pc = "done" /\ dstObj.type = WLZ_2D_DOMAINOBJ
     /\ inp.img.gy = 0 /\ inp.img.gx = 0)
    => /\ dstObj.dom = {}
       /\ \A p \in DOMAIN dstObj.vals : dstObj.vals[p] \notin 128..135

\* C9 witness: Scenario A has returned, and the scan has written zeros over
\* a raster that held 255.
ZeroDerivativesWitness ==
  /\ pc = "done"
  /\ dstObj.type = WLZ_2D_DOMAINOBJ
  /\ inp.img.kind = "flat"
  /\ inp.grdM.dom = Rect(0, 0, MaxRows, MaxCols)
  /\ inp.img.gy = 0
  /\ inp.img.gx = 0
  /\ inp.prior = 255
  /\ dstObj.dom = {}
  /\ \E p \in DOMAIN dstObj.vals : dstObj.vals[p] = 0

\* Three 2D objects with domains that have no pixel in common.
DisjointInputs ==
  /\ \A o \in {inp.grdM, inp.grdY, inp.grdX} :
       /\ ~o.null
       /\ o.type = WLZ_2D_DOMAINOBJ
       /\ ~o.domNull
       /\ o.dom # {}
  /\ inp.grdM.dom \cap inp.grdY.dom \cap inp.grdX.dom = {}

\* C10: when the three domains share no pixel the call returns the empty
\* object with WLZ_ERR_NONE and WlzNMSuppress2D is never entered: nothing
\* is allocated for a scan and no scan step is taken.
EmptyIntersectionLaw ==
  DisjointInputs
    => /\ pc \in {"entry", "done"}
       /\ made \cap {"tObj0", "tmpVal", "tmpObj", "grdMBuf", "dstDom"} = {}
       /\ (pc = "done")
            => /\ dstObj = EmptyResult
               /\ errNum = WLZ_ERR_NONE
               /\ dstItv = <<>>

\* C10 witness: a call with disjoint domains has returned.
EmptyIntersectionWitness ==
  /\ DisjointInputs
  /\ pc = "done"
  /\ istObj.type = WLZ_EMPTY_OBJ

\* The three inputs the claim C11 names, and what is missing of each: a NULL
\* object, a NULL domain of a non-NULL object, or a NULL value raster of an
\* object that has a domain.
ThreeInputs == {inp.grdM, inp.grdY, inp.grdX}

Missing(o) ==
  IF o.null THEN "object"
  ELSE IF o.domNull THEN "domain"
  ELSE IF o.valNull THEN "values"
  ELSE "nothing"

MissingKinds == { Missing(o) : o \in ThreeInputs } \ {"nothing"}

MissingError(kind) ==
  CASE kind = "object" -> WLZ_ERR_OBJECT_NULL
    [] kind = "domain" -> WLZ_ERR_DOMAIN_NULL
    [] kind = "values" -> WLZ_ERR_VALUES_NULL

\* Nothing but the missing parts is wrong with the three inputs: those that
\* are not NULL are 2D domain objects or empty objects.
NoOtherDefect ==
  \A o \in ThreeInputs :
    o.null \/ o.type \in {WLZ_2D_DOMAINOBJ, WLZ_EMPTY_OBJ}

\* C11 (as the claim states it): when one kind of thing is missing among the
\* magnitude and the two derivative objects (a NULL object, a NULL domain
\* or a NULL value raster), the call returns no object and reports the
\* error of that kind.
MissingInputFails ==
  (pc = "done" /\ NoOtherDefect /\ Cardinality(MissingKinds) = 1)
    => /\ dstObj = NullResult
       /\ \A kind \in MissingKinds : errNum = MissingError(kind)

\* A step of the call has been made to fail: an allocation or another
\* fallible call of WlzNMSuppress or WlzNMSuppress2D.
FailureInjected == inp.fail # "none"

\* Once an error is held it is neither replaced nor dropped, and no object
\* is returned.
ErrorSticks ==
  (errNum # WLZ_ERR_NONE) => (errNum' = errNum /\ dstObj' = NullResult)

\* A scanner call that fails (the run could not be appended) ends the scan
\* with an error.
ScanErrorEndsScan ==
  (/\ pc = "inner"
   /\ tmpIWSp.linpos >= Line1(istObj.dom)
   /\ \A g \in GarbageFills : ScanResult(ScanCall(g)).errNum # WLZ_ERR_NONE)
    => (pc' = "exit2D" /\ errNum' = WLZ_ERR_MEM_ALLOC)

\* C12: the call returns an object exactly when it reports WLZ_ERR_NONE; a
\* failed step (validation, allocation, cursor initialisation, run append,
\* standardisation) leaves the returned object NULL, and the error first
\* held is the one reported (the end of object of a cursor is not an error).
NoPartialSuccess ==
  /\ [](pc = "done" => ((dstObj # NullResult) <=> (errNum = WLZ_ERR_NONE)))
  /\ []((pc = "done" /\ FailureInjected)
          => (dstObj = NullResult /\ errNum = WLZ_ERR_MEM_ALLOC))
  /\ [][ErrorSticks]_vars
  /\ [][ScanErrorEndsScan]_vars

\* C12 witness: a run had been appended to the destination domain when
\* the standardisation failed, and the call has returned no object.
NoPartialSuccessWitness ==
  /\ pc = "done"
  /\ inp.fail = "StandardIntervalDomain"
  /\ dstItv # <<>>
  /\ dstObj = NullResult
  /\ errNum = WLZ_ERR_MEM_ALLOC

\* C13 (as the claim states it): when WlzNMSuppress2D has returned with an
\* error after the destination domain had been made, the destination
\* domain and the direction raster tmpVal have each been freed once.
NoLeakOnFailure ==
  (pc \in {"return", "done"} /\ errNum # WLZ_ERR_NONE /\ "dstDom" \in made)
    => /\ freed["dstDom"] = 1
       /\ freed["tmpVal"] = 1

\* The results WlzIntersectN can hand to the switch of the 3D case: a 3D
\* object, a 2D object, or the empty object.
InnerResults ==
  { [errNum |-> WLZ_ERR_NONE, type |-> t, dom |-> D] :
      t \in {WLZ_3D_DOMAINOBJ, WLZ_2D_DOMAINOBJ},
      D \in {Rect(0, 0, 3, 3), Rect(1, 1, 2, 2)} }
    \cup {[errNum |-> WLZ_ERR_NONE, type |-> WLZ_EMPTY_OBJ, dom |-> {}]}

\* C14: a call with a 3D magnitude object whose intersection has been made
\* returns no object and reports WLZ_ERR_OBJECT_TYPE, on the branch of a 3D
\* intersection and on the branch of a 2D intersection handed to
\* WlzNMSuppress3D; only the empty intersection returns the empty object
\* (with WLZ_ERR_NONE).
ThreeDAlwaysFails ==
  /\ (pc = "done" /\ ~inp.grdM.null /\ inp.grdM.type = WLZ_3D_DOMAINOBJ)
       => /\ dstObj \in {NullResult, EmptyResult}
          /\ (dstObj = EmptyResult) <=> (istObj.type = WLZ_EMPTY_OBJ)
          /\ ("istObj" \in made /\ istObj.type # WLZ_EMPTY_OBJ)
               => errNum = WLZ_ERR_OBJECT_TYPE
          /\ (istObj.type = WLZ_EMPTY_OBJ) => errNum = WLZ_ERR_NONE
  /\ \A ist \in InnerResults :
       LET o == Inner3D(ist, 4)
       IN  IF ist.type = WLZ_EMPTY_OBJ
           THEN o.dstObj = EmptyResult /\ o.errNum = WLZ_ERR_NONE
           ELSE o.dstObj = NullResult /\ o.errNum = WLZ_ERR_OBJECT_TYPE

\* C14 witness: a call with four 3D objects over a common domain has
\* returned from the default branch of the inner switch.
ThreeDAlwaysFailsWitness ==
  /\ pc = "done"
  /\ \A o \in {inp.grdM, inp.grdZ, inp.grdY, inp.grdX} :
       ~o.null /\ o.type = WLZ_3D_DOMAINOBJ
  /\ istObj.type = WLZ_3D_DOMAINOBJ
  /\ istObj.dom # {}
  /\ errNum = WLZ_ERR_OBJECT_TYPE

\* C15: once WlzNMSuppress2D has returned, by whatever path, each of the
\* ring and the two derivative caches that was allocated has been freed
\* exactly once and none that was not allocated has been freed; before the
\* return none has been freed.
ScratchReleased ==
  \A b \in ScratchBufs :
    freed[b] = IF (pc \in {"return", "done"}) /\ (b \in made) THEN 1 ELSE 0

\* C15 witness: the allocation of the vertical derivative cache failed with
\* the ring already made; the ring has been freed and the caches have not.
ScratchReleasedWitness ==
  /\ pc = "done"
  /\ inp.fail = "AlcY"
  /\ errNum = WLZ_ERR_MEM_ALLOC
  /\ made \cap ScratchBufs = {"grdMBuf"}
  /\ freed["grdMBuf"] = 1
  /\ freed["grdYBuf"] = 0
  /\ freed["grdXBuf"] = 0

\* The magnitude samples of line ln of the combined domain as a ring row
\* should hold them: the sample of every pixel of the line at its column
\* relative to the first column, and zero elsewhere (all zero for a line
\* that is not in the domain).
ExpectedRow(ln) ==
  [c \in 0..(BufWidth(istObj.dom) - 1) |->
     IF <<ln, Kol1(istObj.dom) + c>> \in istObj.dom
     THEN ValM(inp, ln, Kol1(istObj.dom) + c) ELSE 0]

\* A scanner is about to be called for the interval under the carrier
\* cursor.
ScannerInvoked == (pc = "inner") /\ (tmpIWSp.linpos >= Line1(istObj.dom))

\* The ring row the scanner reads as grdMBufPrv (d = -1), grdMBufCur (d = 0)
\* or grdMBufNxt (d = 1).
RingRow(d) == grdMBuf[RingSlot(tmpIWSp.linpos - Line1(istObj.dom), d)]

\* C16 (as the claim states it): whenever a scanner is called for a run of
\* row r, the ring slot of row r holds the magnitude samples of row r, zero
\* outside the runs of the row.
RingHoldsCurrentRow ==
  ScannerInvoked => (RingRow(0) = ExpectedRow(tmpIWSp.linpos))

\* C17 (as the claim states it): whenever a scanner is called for row r,
\* the ring slots of rows r-1 and r+1 hold the magnitude samples of those
\* rows, all zero for a row that is not in the combined domain, whatever
\* the never written samples read as.
RingHoldsNeighbourRows ==
  ScannerInvoked
    => \A g \in GarbageFills :
         /\ Resolved(RingRow(0 - 1), g) = ExpectedRow(tmpIWSp.linpos - 1)
         /\ Resolved(RingRow(1), g) = ExpectedRow(tmpIWSp.linpos + 1)

\* The maximal contiguous spans of a set F of columns of the run of
\* bufCall, each as the interval record (line, first column, length) that
\* WlzDynItvAdd is to be given for it.
SpansOf(F) ==
  { [ln |-> RunPixel(i)[1], kol |-> RunPixel(i)[2], len |-> (j - i) + 1] :
      <<i, j>> \in { q \in RunCols \X RunCols :
                       /\ q[1] <= q[2]
                       /\ \A k \in q[1]..q[2] : k \in F
                       /\ (q[1] - 1) \notin F
                       /\ (q[2] + 1) \notin F } }

\* The intervals a scanner call has appended are the spans of the pixels
\* it has flagged as retained, each once, from left to right.
RunsAreSpans(res) ==
  (res.errNum = WLZ_ERR_NONE)
    => /\ { res.itvs[n] : n \in 1..Len(res.itvs) } = SpansOf(Flagged(res))
       /\ Len(res.itvs) = Cardinality(SpansOf(Flagged(res)))
       /\ \A n \in 1..(Len(res.itvs) - 1) :
            res.itvs[n].kol + res.itvs[n].len < res.itvs[n + 1].kol

\* C18 (as the claim states it): for one scanned run, the intervals either
\* scanner appends are exactly the maximal contiguous spans of the pixels
\* it retains: each starts at the first pixel of a span and has its
\* length, and a span ending on the last interior pixel is appended too.
RunFormation ==
  bpc = "called" => (RunsAreSpans(bufI) /\ RunsAreSpans(bufD))

\* The part of C18 that is about WlzNMSuppress2DBufI alone.
RunFormationInt ==
  bpc = "called" => RunsAreSpans(bufI)

\* The bit pattern b of a derivative pair: (dY >= 0) * 4 + (dX >= 0) * 2 +
\* (dY * dY >= dX * dX), the squares being compared through the magnitudes.
OctantBits(dY, dX) ==
  (IF dY >= 0 THEN 4 ELSE 0) + (IF dX >= 0 THEN 2 ELSE 0)
    + (IF Abs(dY) >= Abs(dX) THEN 1 ELSE 0)

\* The code of bit pattern b in the table {3, 2, 0, 1, 4, 5, 7, 6}.
OctantTable(b) ==
  CASE b = 0 -> 3 [] b = 1 -> 2 [] b = 2 -> 0 [] b = 3 -> 1
    [] b = 4 -> 4 [] b = 5 -> 5 [] b = 6 -> 7 [] b = 7 -> 6

\* Both scanners have computed the code table[b] of the pair they were
\* given.
CodesAreTableOfBits ==
  /\ bufI.dCode = OctantTable(OctantBits(bufCall.gY, bufCall.gX))
  /\ bufD.dCode = OctantTable(OctantBits(bufCall.gY, bufCall.gX))
  /\ bufI.dCode = bufD.dCode

\* C19 (as the claim states it): for every derivative pair both scanners
\* compute the code table[b], the same in both, and the table maps the
\* eight bit patterns one to one onto 0..7.
OctantCode ==
  /\ { dTable[b + 1] : b \in 0..7 } = 0..7
  /\ \A b \in 0..7 : dTable[b + 1] = OctantTable(b)
  /\ (bpc = "called") => CodesAreTableOfBits

\* The part of C19 that is about the pairs whose squares are ints.
OctantCodeInRange ==
  (/\ bpc = "called"
   /\ SquareFitsInt(bufCall.gY)
   /\ SquareFitsInt(bufCall.gX)) => CodesAreTableOfBits

\* Vectors of the (dX, dY) plane are pairs <<dX, dY>>, the Y axis pointing
\* up as in the diagram of the file header.  Turn45 turns a vector by 45
\* degrees from the positive X axis towards the negative Y axis (and
\* stretches it).
Turn45(v) == <<v[1] + v[2], v[2] - v[1]>>

\* The ray that bounds sector k on the side of sector k - 1: the positive
\* X axis turned k times.
RECURSIVE Ray(_)
Ray(k) == IF k = 0 THEN <<1, 0>> ELSE Turn45(Ray(k - 1))

Cross(a, b) == (a[1] * b[2]) - (a[2] * b[1])

\* v lies in sector k, the 45 degree sector between Ray(k) and Ray(k + 1):
\* strictly inside it, or inside it or on one of its two rays.
StrictlyInSector(k, v) ==
  (Cross(Ray(k), v) < 0) /\ (Cross(Ray(k + 1), v) > 0)

InClosedSector(k, v) ==
  (v # <<0, 0>>) /\ (Cross(Ray(k), v) <= 0) /\ (Cross(Ray(k + 1), v) >= 0)

\* The codes computed for the pair of bufCall: that of the floating scanner
\* and, for a pair whose squares are ints, that of the integer scanner.
CodesOfPair ==
  {bufD.dCode} \cup
    (IF SquareFitsInt(bufCall.gY) /\ SquareFitsInt(bufCall.gX)
     THEN {bufI.dCode} ELSE {})

Sign(x) == IF x > 0 THEN 1 ELSE IF x < 0 THEN 0 - 1 ELSE 0

\* The magnitude the ring of bufCall holds dr rows and dc columns from
\* column i of the run.
NeighbourMag(i, dr, dc) ==
  bufCall.grdMBuf[RingSlot(bufCall.dstPos.vtY, dr)][bufCall.dstPos.vtX + i + dc]

\* The derivative pair of column i of the run of bufCall is axis-aligned or
\* exactly diagonal.
AxisOrDiagonal(i) ==
  LET dY == bufCall.grdYBuf[i]
      dX == bufCall.grdXBuf[i]
  IN  \/ (dX = 0) /\ (dY # 0)
      \/ (dY = 0) /\ (dX # 0)
      \/ (Abs(dX) = Abs(dY)) /\ (dX # 0)

\* The magnitude at column i exceeds those of the neighbours one step along
\* and one step against the gradient.
ExceedsGradientNeighbours(i) ==
  LET sy == Sign(bufCall.grdYBuf[i])
      sx == Sign(bufCall.grdXBuf[i])
  IN  /\ RunMag(i) > NeighbourMag(i, sy, sx)
      /\ RunMag(i) > NeighbourMag(i, 0 - sy, 0 - sx)

\* The columns a scanner call has retained: those of the appended intervals
\* and those whose byte carries the retained flag.
Retained(res) ==
  Flagged(res) \cup { i \in RunCols : RunPixel(i) \in ItvPixels(res.itvs) }

\* C21: a pixel of positive magnitude that either scanner retains, and
\* whose gradient is axis-aligned or exactly diagonal, has a magnitude
\* strictly greater than those of its two neighbours one step along and
\* one step against the gradient (row offset sign(dY), column offset
\* sign(dX)).
LocalMaximumAlongGradient ==
  (bpc = "called")
    => \A res \in {bufI, bufD} :
         \A i \in Retained(res) :
           (RunMag(i) > 0 /\ AxisOrDiagonal(i)) => ExceedsGradientNeighbours(i)

\* C21 witness: both scanners have retained a pixel whose gradient is
\* exactly diagonal and whose two diagonal neighbours are lower, while
\* other neighbours are not.
LocalMaximumWitness ==
  /\ bpc = "called"
  /\ bufCall.dstLen = 3
  /\ bufCall.grdYBuf[1] = 1
  /\ bufCall.grdXBuf[1] = 1
  /\ 1 \in Retained(bufI)
  /\ 1 \in Retained(bufD)
  /\ NeighbourMag(1, 1, 0 - 1) >= RunMag(1)
  /\ NeighbourMag(1, 0, 1) >= RunMag(1)

\* bufCall, a run of three columns, with the 3x3 stencil of its middle
\* column turned by 180 degrees about the centre (previous row <-> next
\* row, left column <-> right column) and both derivatives negated.
Rotated ==
  LET vtY == bufCall.dstPos.vtY
      cc == bufCall.dstPos.vtX + 1
      Opp(sl) == CHOOSE t \in 0..2 :
                   \E d \in {0 - 1, 0, 1} :
                     (sl = RingSlot(vtY, d)) /\ (t = RingSlot(vtY, 0 - d))
  IN  [bufCall EXCEPT
         !.grdMBuf = [sl \in 0..2 |-> [c \in DOMAIN bufCall.grdMBuf[sl] |->
                        IF (c >= cc - 1) /\ (c <= cc + 1)
                        THEN bufCall.grdMBuf[Opp(sl)][(2 * cc) - c]
                        ELSE bufCall.grdMBuf[sl][c]]],
         !.grdYBuf = [i \in DOMAIN bufCall.grdYBuf |-> 0 - bufCall.grdYBuf[i]],
         !.grdXBuf = [i \in DOMAIN bufCall.grdXBuf |-> 0 - bufCall.grdXBuf[i]]]

\* C22: turning the 3x3 magnitude stencil by 180 degrees about the centre
\* pixel and negating both derivatives leaves the decision of either
\* scanner for the centre pixel unchanged, for all magnitudes, derivatives
\* and thresholds.
PointSymmetry ==
  (bpc = "called" /\ bufCall.dstLen = 3)
    => /\ Retained(WlzNMSuppress2DBufI(Rotated)) = Retained(bufI)
       /\ Retained(WlzNMSuppress2DBufD(Rotated)) = Retained(bufD)

\* C22 witness: a centre pixel with a gradient on a sector boundary
\* (dY = 0) that both scanners retain, in a stencil that differs from its
\* turned image.
PointSymmetryWitness ==
  /\ bpc = "called"
  /\ bufCall.dstLen = 3
  /\ bufCall.grdYBuf[1] = 0
  /\ bufCall.grdXBuf[1] # 0
  /\ Rotated.grdMBuf # bufCall.grdMBuf
  /\ Retained(bufI) = {1}
  /\ Retained(bufD) = {1}
  /\ Retained(WlzNMSuppress2DBufI(Rotated)) = {1}

\* The columns of an appended run.
RunColumns(it) == it.kol..(it.kol + it.len - 1)

\* C23: the runs appended to the destination domain for one row are
\* strictly increasing in start column and do not touch (a column lies
\* between two consecutive runs), and every run is not empty and lies
\* inside one run of the combined domain on its row, hence inside the
\* bounding box the destination domain was made with.
WellFormedRegion ==
  /\ \A n, m \in 1..Len(dstItv) :
       (n < m /\ dstItv[n].ln = dstItv[m].ln)
         => dstItv[n].kol + dstItv[n].len < dstItv[m].kol
  /\ \A n \in 1..Len(dstItv) :
       /\ dstItv[n].len >= 1
       /\ \A k \in RunColumns(dstItv[n]) : <<dstItv[n].ln, k>> \in istObj.dom
       /\ dstItv[n].ln \in Line1(istObj.dom)..LastLn(istObj.dom)
       /\ RunColumns(dstItv[n]) \subseteq Kol1(istObj.dom)..LastKl(istObj.dom)

\* C23 witness: a scan has been completed that appended two runs for one
\* row.
WellFormedRegionWitness ==
  /\ pc = "done"
  /\ dstObj.type = WLZ_2D_DOMAINOBJ
  /\ \E n, m \in 1..Len(dstItv) : (n < m) /\ (dstItv[n].ln = dstItv[m].ln)

\* The lines of the combined domain after line ln.
LaterRows(ln) == { p[1] : p \in { q \in istObj.dom : q[1] > ln } }

\* Cursor v is on a later interval than cursor w, in raster order.
LaterRun(w, v) ==
  \/ v.linpos > w.linpos
  \/ (v.linpos = w.linpos) /\ (v.lftpos > w.rgtpos)

\* C24: a scanner is called for a run of row r only when the magnitude
\* cursor has read the last run of the next non-empty row and the ring slot
\* of that row holds all its runs; every step of the carrier cursor goes to
\* a later run in raster order, and a scanner call is always followed by
\* such a step or by the end of the scan, so rows are scanned in ascending
\* order, runs of a row in ascending column order and no run twice.
OneRowLag ==
  /\ [](ScannerInvoked =>
          /\ LaterRows(tmpIWSp.linpos) # {}
          /\ grdMIWSp.linpos = SetMin(LaterRows(tmpIWSp.linpos))
          /\ grdMIWSp.intrmn = 0
          /\ grdMBuf[CMod(3 + (grdMIWSp.linpos - Line1(istObj.dom)), 3)]
               = ExpectedRow(grdMIWSp.linpos))
  /\ [][ScannerInvoked => (LaterRun(tmpIWSp, tmpIWSp') \/ pc' = "exit2D")]_vars
  /\ [][(pc \in {"inner", "outer"} /\ tmpIWSp' # tmpIWSp)
          => LaterRun(tmpIWSp, tmpIWSp')]_vars

\* C24 witness: a scanner is called for a run of a row while the next
\* non-empty row has two runs, the second of which was the last interval
\* read by the magnitude cursor.
OneRowLagWitness ==
  /\ ScannerInvoked
  /\ grdMIWSp.linpos > tmpIWSp.linpos
  /\ grdMIWSp.lftpos > Kol1(istObj.dom)

\* The run under cursor w: its line, first and last column.
RunOf(w) == <<w.linpos, w.lftpos, w.rgtpos>>

\* C25: whenever a scanner is called, the carrier cursor and the two
\* derivative cursors are on the same run and have been advanced the same
\* number of times, the samples loaded into the two derivative caches are
\* those of the run being scanned, and the direction bytes handed to the
\* scanner are those of that run.
CursorLockstep ==
  ScannerInvoked =>
    /\ RunOf(grdYIWSp) = RunOf(tmpIWSp)
    /\ RunOf(grdXIWSp) = RunOf(tmpIWSp)
    /\ grdYIWSp.idx = tmpIWSp.idx
    /\ grdXIWSp.idx = tmpIWSp.idx
    /\ LET a == ScanCall([c \in 0..(BufWidth(istObj.dom) - 1) |-> 0])
       IN  /\ a.dstLen = tmpIWSp.rgtpos - tmpIWSp.lftpos + 1
           /\ \A i \in 0..(a.dstLen - 1) :
                /\ a.yBuf[i] = ValY(inp, tmpIWSp.linpos, tmpIWSp.lftpos + i)
                /\ a.xBuf[i] = ValX(inp, tmpIWSp.linpos, tmpIWSp.lftpos + i)
                /\ a.dstBuf[i] = dstVal[<<tmpIWSp.linpos, tmpIWSp.lftpos + i>>]

\* C25 witness: a scanner is called for the second run of a row.
CursorLockstepWitness ==
  /\ ScannerInvoked
  /\ tmpIWSp.idx >= 2
  /\ tmpIWSp.lftpos > Kol1(istObj.dom)

\* The scan loop of lines 610..701 is being executed.
Scanning == pc \in {"outer", "inner"}

\* The standardisation and the packaging of lines 708..715 are not made to
\* fail.
PackagingSucceeds == inp.fail \notin {"StandardIntervalDomain", "MakeMainDst"}

\* C26: the scan loop terminates; when the magnitude cursor reaches the end
\* of the object the scan ends with errNum WLZ_ERR_NONE, and from a scan
\* ended with WLZ_ERR_NONE the destination domain is packaged into the
\* returned object; an error that ends the scan is neither WLZ_ERR_NONE nor
\* the end of object and is the error the call returns.
NormalTermination ==
  /\ Scanning ~> (pc = "exit2D")
  /\ [][(pc = "outer" /\ pc' = "exit2D") => (errNum' = WLZ_ERR_NONE)]_vars
  /\ [][(pc = "exit2D" /\ errNum = WLZ_ERR_NONE /\ PackagingSucceeds)
          => /\ errNum' = WLZ_ERR_NONE
             /\ dstObj' = [type |-> WLZ_2D_DOMAINOBJ,
                           dom |-> ItvPixels(dstItv), vals |-> dstVal]]_vars
  /\ [][(Scanning /\ pc' = "exit2D" /\ errNum' # WLZ_ERR_NONE)
          => (pc = "inner" /\ errNum' = WLZ_ERR_MEM_ALLOC)]_vars
  /\ [][(pc \in {"exit2D", "return"} /\ errNum # WLZ_ERR_NONE)
          => (errNum' = errNum)]_vars
  /\ []((pc = "exit2D") => (errNum # WLZ_ERR_EOO))

\* C26 witness: a scan over a domain of several rows, one of them split,
\* has ended at the end of the object and its region has been packaged.
NormalTerminationWitness ==
  /\ pc = "return"
  /\ errNum = WLZ_ERR_NONE
  /\ dstObj.type = WLZ_2D_DOMAINOBJ
  /\ Len(Intervals(istObj.dom)) >= MaxRows + 1
  /\ grdMIWSp.idx = Len(Intervals(istObj.dom))

\* The number of appended intervals of res that cover column i of the run.
Covering(res, i) ==
  Cardinality({ n \in 1..Len(res.itvs) :
                  /\ res.itvs[n].ln = RunPixel(i)[1]
                  /\ RunPixel(i)[2] \in RunColumns(res.itvs[n]) })

\* After a scanner call that returned without error, a column carries a
\* retained byte exactly when one appended interval covers it, and no
\* column is covered twice.
RegionMatchesBytes(res) ==
  (res.errNum = WLZ_ERR_NONE)
    => \A i \in RunCols :
         Covering(res, i) = (IF i \in Flagged(res) THEN 1 ELSE 0)

\* C27 (as the claim states it): in both numeric paths every pixel that has
\* been given a retained direction byte is covered by exactly one appended
\* run of its row, and a pixel is in an appended run only if its byte is a
\* retained one.
RegionValueConsistency ==
  bpc = "called" => (RegionMatchesBytes(bufI) /\ RegionMatchesBytes(bufD))

\* The part of C27 that is about WlzNMSuppress2DBufI alone.
RegionValueConsistencyInt ==
  bpc = "called" => RegionMatchesBytes(bufI)

\* The objects WlzNMSuppress makes for itself in the 2D case: the
\* intersection object and the three carriers over its domain.
Temporaries == {"istObj", "tObj0", "tObj1", "tObj2"}

\* C28 (as the claim states it): when WlzNMSuppress has returned, each of
\* the intersection object and the three carrier objects that was made has
\* been freed exactly once, on success and on failure.
TemporariesReleasedOnce ==
  (pc = "done")
    => \A x \in Temporaries : freed[x] = (IF x \in made THEN 1 ELSE 0)

\* The lines of the combined domain.
DomRows == { p[1] : p \in istObj.dom }

\* C29: no scanner is ever called for a run of the last line of the
\* combined domain, no appended run is on that line and the returned region
\* holds no pixel of it; the region returned for a combined domain of one
\* line is empty.
LastRowNeverScanned ==
  /\ ScannerInvoked => (tmpIWSp.linpos < LastLn(istObj.dom))
  /\ \A n \in 1..Len(dstItv) : dstItv[n].ln < LastLn(istObj.dom)
  /\ (pc = "done" /\ dstObj.type = WLZ_2D_DOMAINOBJ)
       => /\ \A p \in dstObj.dom : p[1] < LastLn(istObj.dom)
          /\ (Cardinality(DomRows) = 1) => (dstObj.dom = {})

\* C29 witness: a call has returned a region that is not empty, over a
\* combined domain whose last line is a full line of the bounding box.
LastRowNeverScannedWitness ==
  /\ pc = "done"
  /\ dstObj.type = WLZ_2D_DOMAINOBJ
  /\ dstObj.dom # {}
  /\ \A k \in Kol1(istObj.dom)..LastKl(istObj.dom) :
       <<LastLn(istObj.dom), k>> \in istObj.dom

\* C30: during a scan every ring slot that is cleared, written or read is
\* in 0..2 and computed from a row offset that is not negative, the slot a
\* magnitude run is copied into is that of the row of the run (for the
\* first and for the later runs of a row), the columns of the ring that are
\* written or read are in 0..width-1 of the bounding box, and the scanner
\* accesses the derivative caches and the direction bytes only at indexes
\* of the run, whose length is at least 1 and at most the width.
InBoundsAccess ==
  /\ (pc \in {"outer", "inner"} /\ grdMIWSp.idx >= 1)
       => LET D == istObj.dom
              row == grdMIWSp.linpos - Line1(D)
          IN  /\ row >= 0
              /\ \A j \in 0..2 : (j < grdMIWSp.nwlpos) => (3 + (row - j) >= 0)
              /\ ClearedSlots(grdMIWSp.linpos, Line1(D), grdMIWSp.nwlpos)
                   \subseteq 0..2
              /\ inLnIdx \in 0..2
              /\ inLnIdx = row % 3
              /\ (grdMIWSp.lftpos - Kol1(D))..(grdMIWSp.rgtpos - Kol1(D))
                   \subseteq 0..(BufWidth(D) - 1)
  /\ ScannerInvoked
       => LET D == istObj.dom
              a == ScanCall([c \in 0..(BufWidth(D) - 1) |-> 0])
          IN  /\ a.dstLen >= 1
              /\ a.dstLen <= BufWidth(D)
              /\ a.dstPos.vtY >= 0
              /\ \A d \in {0 - 1, 0, 1} : RingSlot(a.dstPos.vtY, d) \in 0..2
              /\ RingColsRead(a) \subseteq 0..(BufWidth(D) - 1)
              /\ RunIdxTouched(a) \subseteq 0..(a.dstLen - 1)

\* C30 witness: a scanner is called for a run of one pixel, the second run
\* of its row, whose magnitudes went into the slot of that row.
InBoundsAccessWitness ==
  /\ ScannerInvoked
  /\ tmpIWSp.lftpos = tmpIWSp.rgtpos
  /\ tmpIWSp.lftpos > Kol1(istObj.dom)

====
